---- MODULE Spec2Model ----
(***************************************************************************)
(* A model of the go-rest API tester's document store (src/main.go, the    *)
(* last of the three revisions it holds, lines 3872-6029): the backing     *)
(* file saved_requests.json, the process-wide sync.RWMutex that guards it, *)
(* loadRequests with its migrations and corrective save, saveSavedRequests *)
(* with its direct write and its temp-file/rename fallback, and the HTTP   *)
(* handlers, each run by its own goroutine.                                *)
(*                                                                         *)
(* Abstractions.  An id (generateID: 8 random bytes, hex) is a natural     *)
(* number drawn from the counter nextId, so every generated id is new; 0   *)
(* stands for the empty string.  Timestamps, url, method, headers, params  *)
(* and description are carried by no operation modelled here and are left  *)
(* out of the records.  A body (Go's any) is a tagged value: t is "nil",   *)
(* "str" or "json", and v is the string itself or the compact JSON text of *)
(* the decoded value.                                                      *)
(***************************************************************************)
EXTENDS Integers, Sequences, FiniteSets, TLC

(* ------------------------------ bounds --------------------------------- *)

\* Handler invocations in one behaviour.
MaxOps == 2

\* The goroutines that serve requests; g2 serves one only while g1 is busy.
Procs == {"g1", "g2"}
NoProc == "none"

(* -------------------------- program constants -------------------------- *)

maxRetries == 5

(* ------------------------------ strings -------------------------------- *)

\* Go's strings package on the strings of TLA+; positions are 0-based as in Go.

\* s[i:j]
Slice(s, i, j) == SubSeq(s, i + 1, j)

\* s[i:]
SliceFrom(s, i) == SubSeq(s, i + 1, Len(s))

HasPrefix(s, prefix) ==
    Len(s) >= Len(prefix) /\ Slice(s, 0, Len(prefix)) = prefix

HasSuffix(s, suffix) ==
    Len(s) >= Len(suffix) /\ SliceFrom(s, Len(s) - Len(suffix)) = suffix

\* strings.Index: the first position of substr in s, or -1.
Index(s, substr) ==
    LET at == {i \in 0..(Len(s) - Len(substr)) : Slice(s, i, i + Len(substr)) = substr}
    IN  IF at = {} THEN -1 ELSE CHOOSE i \in at : \A j \in at : i <= j

Contains(s, substr) == Index(s, substr) >= 0

\* strings.ReplaceAll for a non-empty old: the non-overlapping occurrences,
\* from the left.
RECURSIVE ReplaceAll(_, _, _)
ReplaceAll(s, old, new) ==
    IF old = "" \/ Index(s, old) < 0 THEN s
    ELSE Slice(s, 0, Index(s, old)) \o new
             \o ReplaceAll(SliceFrom(s, Index(s, old) + Len(old)), old, new)

IsSpace(c) == c \in {" ", "\t", "\n", "\r"}

RECURSIVE TrimLeft(_)
TrimLeft(s) ==
    IF s # "" /\ IsSpace(Slice(s, 0, 1)) THEN TrimLeft(SliceFrom(s, 1)) ELSE s

RECURSIVE TrimRight(_)
TrimRight(s) ==
    IF s # "" /\ IsSpace(SliceFrom(s, Len(s) - 1))
    THEN TrimRight(Slice(s, 0, Len(s) - 1)) ELSE s

TrimSpace(s) == TrimRight(TrimLeft(s))

\* strings.Split(s, sep) for a non-empty sep.
RECURSIVE Split(_, _)
Split(s, sep) ==
    IF Index(s, sep) < 0 THEN <<s>>
    ELSE <<Slice(s, 0, Index(s, sep))>> \o Split(SliceFrom(s, Index(s, sep) + Len(sep)), sep)

\* The length of the run of characters other than c at the head of s.
RECURSIVE RunOfNot(_, _)
RunOfNot(s, c) ==
    IF s = "" \/ Slice(s, 0, 1) = c THEN 0 ELSE 1 + RunOfNot(SliceFrom(s, 1), c)

\* regexp.MustCompile(`\{\{[^}]*\}\}`).FindAllString(s, -1): the leftmost
\* non-overlapping matches.  At a "{{" the class [^}]* takes every character up
\* to the first "}", and the match needs "}}" there.
RECURSIVE FindAllTokens(_)
FindAllTokens(s) ==
    IF Len(s) < 4 THEN <<>>
    ELSE IF ~HasPrefix(s, "{{") THEN FindAllTokens(SliceFrom(s, 1))
    ELSE LET n == 2 + RunOfNot(SliceFrom(s, 2), "}")
         IN  IF HasPrefix(SliceFrom(s, n), "}}")
             THEN <<Slice(s, 0, n + 2)>> \o FindAllTokens(SliceFrom(s, n + 2))
             ELSE FindAllTokens(SliceFrom(s, 1))

(* ----------------------------- JSON values ------------------------------ *)

\* A decoded JSON value (Go's any after json.Unmarshal): k is the kind, s the
\* string or the JSON text of the number or boolean, c the members of an
\* object, sorted by key as json.Marshal writes a map, or the elements of an
\* array.
JNull == [k |-> "null", s |-> "", c |-> <<>>]
JStr(s) == [k |-> "string", s |-> s, c |-> <<>>]
JNum(s) == [k |-> "number", s |-> s, c |-> <<>>]
JBool(b) == [k |-> "bool", s |-> IF b THEN "true" ELSE "false", c |-> <<>>]
JObj(c) == [k |-> "object", s |-> "", c |-> c]
JArr(c) == [k |-> "array", s |-> "", c |-> c]
Member(key, val) == [key |-> key, val |-> val]
Element(val) == [key |-> "", val |-> val]

\* The JSON text of a string: quotes around it, backslash and quote escaped.
Quote(s) == "\"" \o ReplaceAll(ReplaceAll(s, "\\", "\\\\"), "\"", "\\\"") \o "\""

\* json.Marshal(v): the compact JSON text.
RECURSIVE Marshal(_)
RECURSIVE MarshalList(_, _, _)
MarshalList(c, i, isObject) ==
    IF i > Len(c) THEN ""
    ELSE (IF i > 1 THEN "," ELSE "")
             \o (IF isObject THEN Quote(c[i].key) \o ":" ELSE "")
             \o Marshal(c[i].val)
             \o MarshalList(c, i + 1, isObject)

Marshal(v) ==
    CASE v.k = "null" -> "null"
      [] v.k = "string" -> Quote(v.s)
      [] v.k \in {"number", "bool"} -> v.s
      [] v.k = "object" -> "{" \o MarshalList(v.c, 1, TRUE) \o "}"
      [] v.k = "array" -> "[" \o MarshalList(v.c, 1, FALSE) \o "]"

\* The characters of the model's texts in byte order.
Alphabet ==
    " !\"#$%&'()*+,-./0123456789:;<=>?@ABCDEFGHIJKLMNOPQRSTUVWXYZ[\\]^_abcdefghijklmnopqrstuvwxyz{|}~"

\* a < b on Go strings.
RECURSIVE Less(_, _)
Less(a, b) ==
    IF b = "" THEN FALSE
    ELSE IF a = "" THEN TRUE
    ELSE IF Slice(a, 0, 1) # Slice(b, 0, 1)
    THEN Index(Alphabet, Slice(a, 0, 1)) < Index(Alphabet, Slice(b, 0, 1))
    ELSE Less(SliceFrom(a, 1), SliceFrom(b, 1))

\* m[key] = val on a map[string]any, kept in the order of the keys.
setMember(c, key, val) ==
    SelectSeq(c, LAMBDA m : Less(m.key, key)) \o <<Member(key, val)>>
        \o SelectSeq(c, LAMBDA m : Less(key, m.key))

\* The decoder of encoding/json on a text: ok is that a value stands at the
\* head of the text, v the value, rest the text after it.  Numbers are the
\* integers, written as json.Marshal writes them back; the escapes of a string
\* are \" \\ \/ \n \t \r.
NoValue == [ok |-> FALSE, v |-> JNull, rest |-> ""]
Parsed(v, rest) == [ok |-> TRUE, v |-> v, rest |-> rest]
Digits == {"0", "1", "2", "3", "4", "5", "6", "7", "8", "9"}

RECURSIVE RunOfDigits(_)
RunOfDigits(s) ==
    IF s # "" /\ Slice(s, 0, 1) \in Digits THEN 1 + RunOfDigits(SliceFrom(s, 1)) ELSE 0

\* The character an escape stands for, or "" for what is no escape.
Unescape(e) ==
    CASE e \in {"\"", "\\", "/"} -> e
      [] e = "n" -> "\n"
      [] e = "t" -> "\t"
      [] e = "r" -> "\r"
      [] OTHER -> ""

\* A string literal from the character after its opening quote.
RECURSIVE scanString(_, _)
scanString(s, acc) ==
    CASE s = "" -> NoValue
      [] HasPrefix(s, "\"") -> Parsed(JStr(acc), SliceFrom(s, 1))
      [] HasPrefix(s, "\\") ->
             IF Len(s) < 2 \/ Unescape(Slice(s, 1, 2)) = "" THEN NoValue
             ELSE scanString(SliceFrom(s, 2), acc \o Unescape(Slice(s, 1, 2)))
      [] Slice(s, 0, 1) \in {"\n", "\t", "\r"} -> NoValue
      [] OTHER -> scanString(SliceFrom(s, 1), acc \o Slice(s, 0, 1))

\* An integer of n digits after a sign of length sign: 0, or digits that do
\* not start with 0.
numberOf(s, sign, n) ==
    IF n = 0 \/ (n > 1 /\ Slice(s, sign, sign + 1) = "0") THEN NoValue
    ELSE Parsed(JNum(Slice(s, 0, sign + n)), SliceFrom(s, sign + n))

scanNumber(s) ==
    IF HasPrefix(s, "-") THEN numberOf(s, 1, RunOfDigits(SliceFrom(s, 1)))
    ELSE numberOf(s, 0, RunOfDigits(s))

RECURSIVE parseValue(_)
RECURSIVE parseMembers(_, _)
RECURSIVE parseElements(_, _)

\* After the value of a member: a comma and the next member, or the end of
\* the object.
membersWith(c, key, val) ==
    IF ~val.ok THEN NoValue
    ELSE IF HasPrefix(TrimLeft(val.rest), ",")
    THEN parseMembers(SliceFrom(TrimLeft(val.rest), 1), setMember(c, key, val.v))
    ELSE IF HasPrefix(TrimLeft(val.rest), "}")
    THEN Parsed(JObj(setMember(c, key, val.v)), SliceFrom(TrimLeft(val.rest), 1))
    ELSE NoValue

\* After the key of a member: a colon and the value.
memberOf(c, key) ==
    IF key.ok /\ HasPrefix(TrimLeft(key.rest), ":")
    THEN membersWith(c, key.v.s, parseValue(SliceFrom(TrimLeft(key.rest), 1)))
    ELSE NoValue

\* The members of an object from its first key, or from the key after a comma.
parseMembers(text, c) ==
    IF HasPrefix(text, "\"") THEN memberOf(c, scanString(SliceFrom(text, 1), ""))
    ELSE IF text # "" /\ IsSpace(Slice(text, 0, 1)) THEN parseMembers(SliceFrom(text, 1), c)
    ELSE NoValue

\* After an element: a comma and the next element, or the end of the array.
elementsWith(c, val) ==
    IF ~val.ok THEN NoValue
    ELSE IF HasPrefix(TrimLeft(val.rest), ",")
    THEN parseElements(SliceFrom(TrimLeft(val.rest), 1), Append(c, Element(val.v)))
    ELSE IF HasPrefix(TrimLeft(val.rest), "]")
    THEN Parsed(JArr(Append(c, Element(val.v))), SliceFrom(TrimLeft(val.rest), 1))
    ELSE NoValue

\* The elements of an array from its first value, or from the value after a comma.
parseElements(text, c) == elementsWith(c, parseValue(text))

\* The value at the head of a text without white space before it; t is the
\* text after the first character, without white space before it.
valueAt(s, t) ==
    CASE HasPrefix(s, "{") -> IF HasPrefix(t, "}") THEN Parsed(JObj(<<>>), SliceFrom(t, 1))
                              ELSE parseMembers(t, <<>>)
      [] HasPrefix(s, "[") -> IF HasPrefix(t, "]") THEN Parsed(JArr(<<>>), SliceFrom(t, 1))
                              ELSE parseElements(t, <<>>)
      [] HasPrefix(s, "\"") -> scanString(SliceFrom(s, 1), "")
      [] HasPrefix(s, "true") -> Parsed(JBool(TRUE), SliceFrom(s, 4))
      [] HasPrefix(s, "false") -> Parsed(JBool(FALSE), SliceFrom(s, 5))
      [] HasPrefix(s, "null") -> Parsed(JNull, SliceFrom(s, 4))
      [] OTHER -> scanNumber(s)

parseValue(text) ==
    IF text = "" THEN NoValue
    ELSE IF IsSpace(Slice(text, 0, 1)) THEN parseValue(SliceFrom(text, 1))
    ELSE valueAt(text, TrimLeft(SliceFrom(text, 1)))

\* json.Unmarshal(text, &v) into an any: one value, white space around it.
valueAlone(r) == IF r.ok /\ TrimLeft(r.rest) = "" THEN Parsed(r.v, "") ELSE NoValue
Unmarshal(text) == valueAlone(parseValue(text))

(* ------------------------------ values --------------------------------- *)

NilBody == [t |-> "nil", v |-> ""]
StrBody(s) == [t |-> "str", v |-> s]
JSONBody(s) == [t |-> "json", v |-> s]

\* json.Unmarshal([]byte(bodyStr), &jsonObj): the decoded value, or "invalid".
\* A JSON string literal decodes to a Go string, null to nil.
asBody(r) ==
    CASE ~r.ok -> [t |-> "invalid", v |-> ""]
      [] r.v.k = "string" -> StrBody(r.v.s)
      [] r.v.k = "null" -> NilBody
      [] OTHER -> JSONBody(Marshal(r.v))

jsonUnmarshal(s) == asBody(Unmarshal(s))

\* strings.TrimSpace(s) == ""
isBlank(s) == TrimSpace(s) = ""

\* parseJSON without the attempt to decode: every text stays a string.
parseJSONKeepText(body) ==
    IF body.t = "nil" THEN StrBody("")
    ELSE body

\* return jsonObj where err == nil, return bodyStr otherwise.
decodedOr(jsonObj, body) == IF jsonObj.t # "invalid" THEN jsonObj ELSE body

parseJSON(body) ==
    IF body.t = "nil" THEN StrBody("")
    ELSE IF body.t # "str" THEN body
    ELSE IF isBlank(body.v) THEN body
    ELSE decodedOr(jsonUnmarshal(body.v), body)

bodyToString(body) ==
    IF body.t = "nil" THEN "" ELSE body.v

NoResponse == [present |-> FALSE, body |-> NilBody]
Response(b) == [present |-> TRUE, body |-> b]

\* data := &SavedRequestsData{Requests: [], Variables: [], Environments: []}
EmptyData ==
    [requests |-> <<>>, variables |-> <<>>, environments |-> <<>>,
     currentEnvironment |-> 0, groups |-> <<>>, wordWrap |-> FALSE]

Req(id, name, group, body, lr) ==
    [id |-> id, name |-> name, group |-> group, body |-> body, lastResponse |-> lr]
Env(id, name, variables) == [id |-> id, name |-> name, variables |-> variables]
Grp(id, name) == [id |-> id, name |-> name]
Var(key, value) == [key |-> key, value |-> value]

(* --------------------------- name utilities ---------------------------- *)

Suffixed(baseName, counter) == baseName \o " (" \o ToString(counter) \o ")"

RECURSIVE uniqueNameFrom(_, _, _, _)
uniqueNameFrom(baseName, requests, candidate, counter) ==
    IF \A i \in DOMAIN requests : requests[i].name # candidate
    THEN candidate
    ELSE uniqueNameFrom(baseName, requests, Suffixed(baseName, counter + 1), counter + 1)

\* uniqueName that gives the second and every later copy the suffix " (2)".
uniqueNameAlwaysTwo(baseName, requests) ==
    IF \A i \in DOMAIN requests : requests[i].name # baseName THEN baseName
    ELSE Suffixed(baseName, 2)

uniqueName(baseName, requests) == uniqueNameFrom(baseName, requests, baseName, 1)

(* ---------------------------- migrations ------------------------------- *)

initEnv(data, id) ==
    [data EXCEPT !.environments = <<Env(id, "Default", <<>>)>>,
                 !.currentEnvironment = id]

migrateVarsToEnvs(data, id) ==
    [data EXCEPT !.environments = <<Env(id, "Default", data.variables)>>,
                 !.currentEnvironment = id]

hasDefaultGroup(data) ==
    \E i \in DOMAIN data.groups : data.groups[i].name = "default"

ensureDefaultGroup(data, id) ==
    IF hasDefaultGroup(data) THEN data
    ELSE [data EXCEPT !.groups = Append(@, Grp(id, "default"))]

migrateDefaultGroup(data) ==
    [data EXCEPT !.requests =
        [i \in DOMAIN @ |-> IF @[i].group = "" THEN [@[i] EXCEPT !.group = "default"]
                            ELSE @[i]]]

migrateBody(body) ==
    IF body.t = "str" /\ ~isBlank(body.v) /\ parseJSON(body).t # "str"
    THEN parseJSON(body) ELSE body

migrateStringToJSON(data) ==
    [data EXCEPT !.requests =
        [i \in DOMAIN @ |->
            [@[i] EXCEPT !.body = migrateBody(@),
                         !.lastResponse =
                             IF @.present THEN [@ EXCEPT !.body = migrateBody(@)] ELSE @]]]

RECURSIVE dedupCandidate(_, _, _, _)
dedupCandidate(originalName, seenNames, candidateName, counter) ==
    IF candidateName \notin seenNames THEN candidateName
    ELSE dedupCandidate(originalName, seenNames,
                        Suffixed(originalName, counter + 1), counter + 1)

RECURSIVE dedupFrom(_, _, _)
dedupFrom(requests, i, seenNames) ==
    IF i > Len(requests) THEN requests
    ELSE LET candidateName ==
                 dedupCandidate(requests[i].name, seenNames, requests[i].name, 1)
         IN  dedupFrom([requests EXCEPT ![i].name = candidateName], i + 1,
                       seenNames \cup {candidateName})

\* The repaired data; hasChanges is that a name differs from the one loaded.
dedupRequestNames(data) == [data EXCEPT !.requests = dedupFrom(@, 1, {})]

(* ------------------------------- files --------------------------------- *)

\* What a file holds: nothing (absent), zero bytes (empty), bytes that are not
\* JSON (corrupt), a JSON document with a field of the wrong type (mistyped:
\* json.Unmarshal decodes the other fields into data and returns an
\* UnmarshalTypeError), or a Document (doc).
Absent == [kind |-> "absent", doc |-> EmptyData]
Empty == [kind |-> "empty", doc |-> EmptyData]
Corrupt == [kind |-> "corrupt", doc |-> EmptyData]
Mistyped(d) == [kind |-> "mistyped", doc |-> d]
DocFile(d) == [kind |-> "doc", doc |-> d]

(* ----------------------------- loadRequests ---------------------------- *)

\* The part of loadRequests that runs on a parsed Document: the migrations in the
\* order of the code, each taking the next id when it generates one.
loadParsed(d0, nid) ==
    LET mig == Len(d0.variables) > 0 /\ Len(d0.environments) = 0
        d1 == IF mig THEN migrateVarsToEnvs(d0, nid) ELSE d0
        n1 == IF mig THEN nid + 1 ELSE nid
        ini == Len(d1.environments) = 0
        d2 == IF ini THEN initEnv(d1, n1) ELSE d1
        n2 == IF ini THEN n1 + 1 ELSE n1
        d3 == IF d2.currentEnvironment = 0 /\ Len(d2.environments) > 0
              THEN [d2 EXCEPT !.currentEnvironment = d2.environments[1].id] ELSE d2
        d4 == ensureDefaultGroup(d3, n2)
        n4 == IF hasDefaultGroup(d3) THEN n2 ELSE n2 + 1
        d5 == migrateDefaultGroup(d4)
        d6 == migrateStringToJSON(d5)
        d7 == dedupRequestNames(d6)
    IN  [data |-> d7, hasNameChanges |-> d7 # d6, nid |-> n4]

\* What loadRequests computes from the file it reads, between RLock and the
\* corrective save.
loadRequestsBody(f, nid) ==
    IF f.kind \in {"absent", "empty", "corrupt"}
    THEN [data |-> initEnv(EmptyData, nid), hasNameChanges |-> FALSE, nid |-> nid + 1]
    ELSE IF f.kind = "mistyped"
    THEN [data |-> initEnv(f.doc, nid), hasNameChanges |-> FALSE, nid |-> nid + 1]
    ELSE loadParsed(f.doc, nid)

\* getCurrentEnvironment: the data with currentEnvironment defaulted, and
\* whether an environment with that id exists.
getCurrentEnvironment(data) ==
    LET d == IF data.currentEnvironment = 0 /\ Len(data.environments) > 0
             THEN [data EXCEPT !.currentEnvironment = data.environments[1].id]
             ELSE data
    IN  [data |-> d,
         found |-> \E i \in DOMAIN d.environments :
                       d.environments[i].id = d.currentEnvironment]

(* ------------------------------ templates ------------------------------ *)

\* parseVariable: ok is that err is nil.
NoRef == [ok |-> FALSE, requestName |-> "", fieldPath |-> "", isResponse |-> FALSE]

RefOf(requestName, fieldPath) ==
    IF requestName = "" \/ fieldPath = "" THEN NoRef
    ELSE [ok |-> TRUE, requestName |-> requestName, fieldPath |-> fieldPath,
          isResponse |-> fieldPath = "response"]

parseVariable(variable) ==
    IF ~HasPrefix(variable, "{{") \/ ~HasSuffix(variable, "}}") THEN NoRef
    ELSE LET content == TrimSpace(Slice(variable, 2, Len(variable) - 2))
         IN  IF HasPrefix(content, "\\\"")
             THEN LET endIndex == Index(SliceFrom(content, 2), "\\\".")
                  IN  IF endIndex = -1 THEN NoRef
                      ELSE RefOf(Slice(content, 2, endIndex + 2),
                                 SliceFrom(content, endIndex + 4))
             ELSE IF HasPrefix(content, "\"")
             THEN LET endIndex == Index(SliceFrom(content, 1), "\".")
                  IN  IF endIndex = -1 THEN NoRef
                      ELSE RefOf(Slice(content, 1, endIndex + 1),
                                 SliceFrom(content, endIndex + 3))
             ELSE NoRef

FieldResult(value, isObject) == [value |-> value, isObject |-> isObject]

\* The member of an object with this key, or none.
HasKey(v, part) == \E i \in DOMAIN v.c : v.c[i].key = part
Lookup(v, part) == v.c[CHOOSE i \in DOMAIN v.c : v.c[i].key = part].val

\* The loop over the parts of the path: the value reached, or "stop" where the
\* code returns the empty result.
RECURSIVE Navigate(_, _, _)
Navigate(current, parts, i) ==
    IF i > Len(parts) THEN [stop |-> FALSE, v |-> current]
    ELSE IF parts[i] = "" THEN Navigate(current, parts, i + 1)
    ELSE IF current.k = "object" /\ HasKey(current, parts[i])
    THEN Navigate(Lookup(current, parts[i]), parts, i + 1)
    ELSE [stop |-> TRUE, v |-> JNull]

\* extractJSONField with every leaf converted by json.Marshal, strings too.
extractJSONFieldMarshalAll(data, fieldPath) ==
    IF data.k = "null" THEN FieldResult("", FALSE)
    ELSE IF fieldPath = "response"
    THEN IF data.k = "string" THEN FieldResult(data.s, FALSE)
         ELSE FieldResult(Marshal(data), TRUE)
    ELSE LET r == Navigate(data, Split(fieldPath, "."), 1)
         IN  IF r.stop THEN FieldResult("", FALSE)
             ELSE FieldResult(Marshal(r.v), r.v.k \in {"object", "array"})

\* extractJSONField answering a path that stops short with the whole body.
extractJSONFieldWholeOnMiss(data, fieldPath) ==
    IF data.k = "null" THEN FieldResult("", FALSE)
    ELSE IF fieldPath = "response"
    THEN IF data.k = "string" THEN FieldResult(data.s, FALSE)
         ELSE FieldResult(Marshal(data), TRUE)
    ELSE LET r == Navigate(data, Split(fieldPath, "."), 1)
         IN  IF r.stop THEN FieldResult(Marshal(data), TRUE)
             ELSE CASE r.v.k = "string" -> FieldResult(r.v.s, FALSE)
                    [] r.v.k = "null" -> FieldResult("", FALSE)
                    [] r.v.k \in {"object", "array"} -> FieldResult(Marshal(r.v), TRUE)
                    [] OTHER -> FieldResult(Marshal(r.v), FALSE)

\* extractJSONField flagging every leaf it converts by json.Marshal.
extractJSONFieldFlagScalars(data, fieldPath) ==
    IF data.k = "null" THEN FieldResult("", FALSE)
    ELSE IF fieldPath = "response"
    THEN IF data.k = "string" THEN FieldResult(data.s, FALSE)
         ELSE FieldResult(Marshal(data), TRUE)
    ELSE LET r == Navigate(data, Split(fieldPath, "."), 1)
         IN  IF r.stop THEN FieldResult("", FALSE)
             ELSE CASE r.v.k = "string" -> FieldResult(r.v.s, FALSE)
                    [] r.v.k = "null" -> FieldResult("", FALSE)
                    [] OTHER -> FieldResult(Marshal(r.v), TRUE)

extractJSONField(data, fieldPath) ==
    IF data.k = "null" THEN FieldResult("", FALSE)
    ELSE IF fieldPath = "response"
    THEN IF data.k = "string" THEN FieldResult(data.s, FALSE)
         ELSE FieldResult(Marshal(data), TRUE)
    ELSE LET r == Navigate(data, Split(fieldPath, "."), 1)
         IN  IF r.stop THEN FieldResult("", FALSE)
             ELSE CASE r.v.k = "string" -> FieldResult(r.v.s, FALSE)
                    [] r.v.k = "null" -> FieldResult("", FALSE)
                    [] r.v.k \in {"object", "array"} -> FieldResult(Marshal(r.v), TRUE)
                    [] OTHER -> FieldResult(Marshal(r.v), FALSE)

\* subJSONObject without the search for the quoted placeholder.
subJSONObjectBare(input, placeholder, jsonValue) ==
    ReplaceAll(input, placeholder, jsonValue)

subJSONObject(input, placeholder, jsonValue) ==
    LET quotedPlaceholder == "\"" \o placeholder \o "\""
    IN  IF Contains(input, quotedPlaceholder)
        THEN ReplaceAll(input, quotedPlaceholder, jsonValue)
        ELSE ReplaceAll(input, placeholder, jsonValue)

\* The matches of processTemplate that hold a quote.
responseMatchesOf(input) ==
    SelectSeq(FindAllTokens(input), LAMBDA m : Contains(m, "\"") \/ Contains(m, "\\\""))

\* os.Getenv on a process environment: "" for a name that is not set.
Getenv(env, name) ==
    IF \E i \in DOMAIN env : env[i].key = name
    THEN env[CHOOSE i \in DOMAIN env : env[i].key = name].value
    ELSE ""

resolveEnvVar(env, value) ==
    IF HasPrefix(value, "$")
    THEN IF Getenv(env, SliceFrom(value, 1)) # "" THEN Getenv(env, SliceFrom(value, 1))
         ELSE value
    ELSE value

\* The loop over the variables without the test of the key.
RECURSIVE applyVariablesAnyKey(_, _, _, _)
applyVariablesAnyKey(result, variables, i, env) ==
    IF i > Len(variables) THEN result
    ELSE applyVariablesAnyKey(ReplaceAll(result, "{{" \o variables[i].key \o "}}",
                                         resolveEnvVar(env, variables[i].value)),
                              variables, i + 1, env)

\* The loop over the variables run from the last variable to the first.
RECURSIVE applyVariablesBackwards(_, _, _, _)
applyVariablesBackwards(result, variables, i, env) ==
    IF i > Len(variables) THEN result
    ELSE LET v == variables[Len(variables) + 1 - i]
         IN  IF v.key # ""
             THEN applyVariablesBackwards(ReplaceAll(result, "{{" \o v.key \o "}}",
                                                     resolveEnvVar(env, v.value)),
                                          variables, i + 1, env)
             ELSE applyVariablesBackwards(result, variables, i + 1, env)

\* The loop of processTemplate over the variables, from variable i on.
RECURSIVE applyVariables(_, _, _, _)
applyVariables(result, variables, i, env) ==
    IF i > Len(variables) THEN result
    ELSE IF variables[i].key # ""
    THEN applyVariables(ReplaceAll(result, "{{" \o variables[i].key \o "}}",
                                   resolveEnvVar(env, variables[i].value)),
                        variables, i + 1, env)
    ELSE applyVariables(result, variables, i + 1, env)

(* ------------------------------ handlers ------------------------------- *)

\* A client's request: the handler and the fields of its body or URL that the
\* handler reads.
NoOp ==
    [kind |-> "none", id |-> 0, src |-> 0, name |-> "", group |-> "", body |-> NilBody,
     lr |-> NoResponse, hasVars |-> FALSE, vars |-> <<>>, tokens |-> <<>>,
     wordWrap |-> FALSE, exec |-> FALSE, execError |-> FALSE]

\* The index of the first element of seq with this id (the loops that end in
\* break), or 0.
IndexOfId(seq, id) ==
    IF \E i \in DOMAIN seq : seq[i].id = id
    THEN CHOOSE i \in DOMAIN seq :
             seq[i].id = id /\ \A j \in 1..(i - 1) : seq[j].id # id
    ELSE 0

RemoveAt(seq, i) == SubSeq(seq, 1, i - 1) \o SubSeq(seq, i + 1, Len(seq))

Out(status, data, nid) == [status |-> status, data |-> data, nid |-> nid]

\* saveRequest, from the loaded data to the data it saves.
saveRequestBody(op, data, nid) ==
    LET group == IF op.group = "" THEN "default" ELSE op.group
    IN  IF \E i \in DOMAIN data.requests : data.requests[i].name = op.name
        THEN Out("conflict", data, nid)
        ELSE Out("ok",
                 [data EXCEPT !.requests =
                     Append(@, Req(nid, op.name, group, parseJSON(op.body), op.lr))],
                 nid + 1)

\* updateRequest giving the request it updates a new id.
updateRequestBodyNewId(op, data, nid) ==
    LET group == IF op.group = "" THEN "default" ELSE op.group
        i == IndexOfId(data.requests, op.id)
    IN  IF \E j \in DOMAIN data.requests :
               data.requests[j].id # op.id /\ data.requests[j].name = op.name
        THEN Out("conflict", data, nid)
        ELSE IF i = 0 THEN Out("notfound", data, nid)
        ELSE Out("ok",
                 [data EXCEPT !.requests[i] =
                     [@ EXCEPT !.id = nid, !.name = op.name, !.group = group,
                               !.body = parseJSON(op.body),
                               !.lastResponse = IF op.lr.present THEN op.lr ELSE @]],
                 nid + 1)

\* updateRequest storing the lastResponse of the body also when there is none.
updateRequestBodyClearResponse(op, data, nid) ==
    LET group == IF op.group = "" THEN "default" ELSE op.group
        i == IndexOfId(data.requests, op.id)
    IN  IF \E j \in DOMAIN data.requests :
               data.requests[j].id # op.id /\ data.requests[j].name = op.name
        THEN Out("conflict", data, nid)
        ELSE IF i = 0 THEN Out("notfound", data, nid)
        ELSE Out("ok",
                 [data EXCEPT !.requests[i] =
                     [@ EXCEPT !.name = op.name, !.group = group,
                               !.body = parseJSON(op.body),
                               !.lastResponse = op.lr]],
                 nid)

updateRequestBody(op, data, nid) ==
    LET group == IF op.group = "" THEN "default" ELSE op.group
        i == IndexOfId(data.requests, op.id)
    IN  IF \E j \in DOMAIN data.requests :
               data.requests[j].id # op.id /\ data.requests[j].name = op.name
        THEN Out("conflict", data, nid)
        ELSE IF i = 0 THEN Out("notfound", data, nid)
        ELSE Out("ok",
                 [data EXCEPT !.requests[i] =
                     [@ EXCEPT !.name = op.name, !.group = group,
                               !.body = parseJSON(op.body),
                               !.lastResponse = IF op.lr.present THEN op.lr ELSE @]],
                 nid)

deleteRequestBody(op, data, nid) ==
    LET i == IndexOfId(data.requests, op.id)
    IN  IF i = 0 THEN Out("notfound", data, nid)
        ELSE Out("ok", [data EXCEPT !.requests = RemoveAt(@, i)], nid)

duplicateRequestBody(op, data, nid) ==
    LET i == IndexOfId(data.requests, op.id)
    IN  IF i = 0 THEN Out("notfound", data, nid)
        ELSE LET original == data.requests[i]
                 name == uniqueName(original.name \o " (Copy)", data.requests)
             IN  Out("ok",
                     [data EXCEPT !.requests =
                         Append(@, Req(nid, name, original.group, original.body,
                                       NoResponse))],
                     nid + 1)

\* saveVariables: the variables of the current environment are replaced.
saveVariablesBody(op, data, nid) ==
    LET i == IndexOfId(data.environments, data.currentEnvironment)
    IN  IF i = 0 THEN Out("error", data, nid)
        ELSE Out("ok", [data EXCEPT !.environments[i].variables = op.vars], nid)

createEnvironmentBody(op, data, nid) ==
    IF \E i \in DOMAIN data.environments : data.environments[i].name = op.name
    THEN Out("conflict", data, nid)
    ELSE Out("ok", [data EXCEPT !.environments = Append(@, Env(nid, op.name, <<>>))],
             nid + 1)

updateEnvironmentBody(op, data, nid) ==
    LET i == IndexOfId(data.environments, op.id)
    IN  IF i = 0 THEN Out("notfound", data, nid)
        ELSE IF op.name # "" /\ \E j \in DOMAIN data.environments :
                                    j # i /\ data.environments[j].name = op.name
        THEN Out("conflict", data, nid)
        ELSE Out("ok",
                 [data EXCEPT !.environments[i] =
                     [@ EXCEPT !.name = IF op.name # "" THEN op.name ELSE @,
                               !.variables = IF op.hasVars THEN op.vars ELSE @]],
                 nid)

\* deleteEnvironment.  data.Environments[0] of an empty list panics; net/http
\* recovers the panic and the request ends without a save.
deleteEnvironmentBody(op, data, nid) ==
    LET newEnvironments == SelectSeq(data.environments, LAMBDA e : e.id # op.id)
        found == \E i \in DOMAIN data.environments : data.environments[i].id = op.id
    IN  IF Len(data.environments) <= 1 THEN Out("badrequest", data, nid)
        ELSE IF ~found THEN Out("notfound", data, nid)
        ELSE IF data.currentEnvironment = op.id /\ Len(newEnvironments) = 0
        THEN Out("panic", data, nid)
        ELSE Out("ok",
                 [data EXCEPT !.environments = newEnvironments,
                              !.currentEnvironment =
                                  IF @ = op.id THEN newEnvironments[1].id ELSE @],
                 nid)

copyEnvironmentBody(op, data, nid) ==
    LET s == IndexOfId(data.environments, op.src)
        i == IndexOfId(data.environments, op.id)
    IN  IF s = 0 \/ i = 0 THEN Out("notfound", data, nid)
        ELSE Out("ok",
                 [data EXCEPT !.environments[i].variables = data.environments[s].variables],
                 nid)

activateEnvironmentBody(op, data, nid) ==
    IF \E i \in DOMAIN data.environments : data.environments[i].id = op.id
    THEN Out("ok", [data EXCEPT !.currentEnvironment = op.id], nid)
    ELSE Out("notfound", data, nid)

createGroupBody(op, data, nid) ==
    IF \E i \in DOMAIN data.groups : data.groups[i].name = op.name
    THEN Out("conflict", data, nid)
    ELSE Out("ok", [data EXCEPT !.groups = Append(@, Grp(nid, op.name))], nid + 1)

\* deleteGroup without the check for requests in the group.
deleteGroupBodyNoRequestCheck(op, data, nid) ==
    LET i == IndexOfId(data.groups, op.id)
    IN  IF i = 0 THEN Out("notfound", data, nid)
        ELSE IF data.groups[i].name = "default" THEN Out("badrequest", data, nid)
        ELSE Out("ok", [data EXCEPT !.groups = RemoveAt(@, i)], nid)

deleteGroupBody(op, data, nid) ==
    LET i == IndexOfId(data.groups, op.id)
    IN  IF i = 0 THEN Out("notfound", data, nid)
        ELSE IF data.groups[i].name = "default" THEN Out("badrequest", data, nid)
        ELSE IF \E j \in DOMAIN data.requests :
                    data.requests[j].group = data.groups[i].name
        THEN Out("badrequest", data, nid)
        ELSE Out("ok", [data EXCEPT !.groups = RemoveAt(@, i)], nid)

handleSaveWordWrapBody(op, data, nid) ==
    Out("ok", [data EXCEPT !.wordWrap = op.wordWrap], nid)

\* The handler's code between its loadRequests and its saveSavedRequests.
HandlerBody(op, data, nid) ==
    CASE op.kind = "saveRequest" -> saveRequestBody(op, data, nid)
      [] op.kind = "updateRequest" -> updateRequestBody(op, data, nid)
      [] op.kind = "deleteRequest" -> deleteRequestBody(op, data, nid)
      [] op.kind = "duplicateRequest" -> duplicateRequestBody(op, data, nid)
      [] op.kind = "saveVariables" -> saveVariablesBody(op, data, nid)
      [] op.kind = "createEnvironment" -> createEnvironmentBody(op, data, nid)
      [] op.kind = "updateEnvironment" -> updateEnvironmentBody(op, data, nid)
      [] op.kind = "deleteEnvironment" -> deleteEnvironmentBody(op, data, nid)
      [] op.kind = "copyEnvironment" -> copyEnvironmentBody(op, data, nid)
      [] op.kind = "activateEnvironment" -> activateEnvironmentBody(op, data, nid)
      [] op.kind = "createGroup" -> createGroupBody(op, data, nid)
      [] op.kind = "deleteGroup" -> deleteGroupBody(op, data, nid)
      [] op.kind = "handleSaveWordWrap" -> handleSaveWordWrapBody(op, data, nid)

(* ------------------------------- state --------------------------------- *)

VARIABLES
    file,      \* saved_requests.json
    tmp,       \* saved_requests.json.tmp
    readers,   \* the goroutines that hold fileAccessMutex for reading
    writer,    \* the goroutine that holds fileAccessMutex for writing, or NoProc
    nextId,    \* the next id generateID returns
    ops,       \* handler invocations so far
    proc,      \* per goroutine: its handler, its position and its locals
    tpl        \* the template resolution of one proxy call, step by step

vars == <<file, tmp, readers, writer, nextId, ops, proc, tpl>>

\* A goroutine's locals.  pc: the position.  op: the request being served.
\* data: the Document in hand.  from: who called saveSavedRequests ("handler",
\* or "load" for the corrective save).  attempt: the rename loop's counter.
\* err: what the last saveSavedRequests returned ("" for nil).  errAttempts: the
\* attempt count named by that error.  fixErr: the error of the corrective save.
\* lerr: the error loadRequests returns.  k, snaps: the proxy's loads so far and
\* the Document each returned.  resp: the response sent for the last request.
\* newId: the id of the entity the handler created.  seen: the file as the
\* last loadRequests read it.  prev: the file as it was when saveSavedRequests
\* took the lock.
IdleProc ==
    [pc |-> "idle", op |-> NoOp, data |-> EmptyData, from |-> "handler", attempt |-> 0,
     err |-> "", errAttempts |-> 0, fixErr |-> "", lerr |-> FALSE, k |-> 0,
     snaps |-> <<>>, resp |-> "", newId |-> 0, seen |-> Absent, prev |-> Absent]

At(p, pc) == proc[p].pc = pc

Set(p, r) == proc' = [proc EXCEPT ![p] = r]

\* The handler answers and its goroutine ends: what stays is the request, the
\* answer, the Document it held and the error it met.
Answer(p, status) ==
    [IdleProc EXCEPT !.op = proc[p].op, !.resp = status, !.data = proc[p].data,
                     !.newId = proc[p].newId, !.err = proc[p].err,
                     !.errAttempts = proc[p].errAttempts, !.fixErr = proc[p].fixErr,
                     !.snaps = proc[p].snaps]

(* ------------------------- sync.RWMutex contract ----------------------- *)

CanRLock == writer = NoProc
CanLock == writer = NoProc /\ readers = {}

(* -------------------------------- Load --------------------------------- *)

\* fileAccessMutex.RLock() at the head of loadRequests.
LoadRLock(p) ==
    /\ At(p, "rlock")
    /\ CanRLock
    /\ readers' = readers \cup {p}
    /\ Set(p, [proc[p] EXCEPT !.pc = "read", !.lerr = FALSE, !.fixErr = ""])
    /\ UNCHANGED <<file, tmp, writer, nextId, ops, tpl>>

\* os.Stat, os.ReadFile, json.Unmarshal, the migrations and dedupRequestNames.
\* loadRequests saving whenever a migration changed the Document it read.
LoadReadSaveAnyChange(p) ==
    /\ At(p, "read")
    /\ LET r == loadRequestsBody(file, nextId)
       IN  /\ nextId' = r.nid
           /\ Set(p, [proc[p] EXCEPT !.data = r.data, !.seen = file,
                                     !.pc = IF r.hasNameChanges \/ r.data # file.doc
                                            THEN "fix_runlock" ELSE "ret"])
    /\ UNCHANGED <<file, tmp, readers, writer, ops, tpl>>

LoadRead(p) ==
    /\ At(p, "read")
    /\ LET r == loadRequestsBody(file, nextId)
       IN  /\ nextId' = r.nid
           /\ Set(p, [proc[p] EXCEPT !.data = r.data, !.seen = file,
                                     !.pc = IF r.hasNameChanges THEN "fix_runlock"
                                            ELSE "ret"])
    /\ UNCHANGED <<file, tmp, readers, writer, ops, tpl>>

\* os.ReadFile fails: loadRequests returns the error.
LoadReadFail(p) ==
    /\ At(p, "read")
    /\ file.kind # "absent"
    /\ Set(p, [proc[p] EXCEPT !.lerr = TRUE, !.pc = "ret"])
    /\ UNCHANGED <<file, tmp, readers, writer, nextId, ops, tpl>>

\* The corrective save entered with the read lock still held (no RUnlock at
\* line 4842).
LoadFixKeepRLock(p) ==
    /\ At(p, "fix_runlock")
    /\ Set(p, [proc[p] EXCEPT !.pc = "lock", !.from = "load"])
    /\ UNCHANGED <<file, tmp, readers, writer, nextId, ops, tpl>>

\* hasNameChanges: RUnlock before the corrective saveSavedRequests(data).
LoadFixRUnlock(p) ==
    /\ At(p, "fix_runlock")
    /\ readers' = readers \ {p}
    /\ Set(p, [proc[p] EXCEPT !.pc = "lock", !.from = "load"])
    /\ UNCHANGED <<file, tmp, writer, nextId, ops, tpl>>

\* fileAccessMutex.RLock() after the corrective save.
LoadFixRLock(p) ==
    /\ At(p, "fix_rlock")
    /\ CanRLock
    /\ readers' = readers \cup {p}
    /\ Set(p, [proc[p] EXCEPT !.pc = "ret"])
    /\ UNCHANGED <<file, tmp, writer, nextId, ops, tpl>>

(* -------------------------------- Save --------------------------------- *)

\* saveSavedRequests entered without waiting for fileAccessMutex.
SaveNoLock(p) ==
    /\ At(p, "lock")
    /\ writer' = p
    /\ Set(p, [proc[p] EXCEPT !.pc = "direct", !.err = "", !.errAttempts = 0,
                              !.attempt = 0, !.prev = file])
    /\ UNCHANGED <<file, tmp, readers, nextId, ops, tpl>>

\* fileAccessMutex.Lock() at the head of saveSavedRequests.
SaveLock(p) ==
    /\ At(p, "lock")
    /\ CanLock
    /\ writer' = p
    /\ Set(p, [proc[p] EXCEPT !.pc = "direct", !.err = "", !.errAttempts = 0,
                              !.attempt = 0, !.prev = file])
    /\ UNCHANGED <<file, tmp, readers, nextId, ops, tpl>>

\* tryDirectWrite returns nil: the file holds the new Document.
tryDirectWrite(p) ==
    /\ At(p, "direct")
    /\ file' = DocFile(proc[p].data)
    /\ Set(p, [proc[p] EXCEPT !.pc = "unlock"])
    /\ UNCHANGED <<tmp, readers, writer, nextId, ops, tpl>>

\* tryDirectWrite: os.OpenFile fails, the file is untouched.
tryDirectWriteOpenFail(p) ==
    /\ At(p, "direct")
    /\ Set(p, [proc[p] EXCEPT !.pc = "temp"])
    /\ UNCHANGED <<file, tmp, readers, writer, nextId, ops, tpl>>

\* tryDirectWrite: O_TRUNC has emptied the file, then file.Write fails before or
\* after writing a part of the JSON text.
tryDirectWriteWriteFail(p) ==
    /\ At(p, "direct")
    /\ file' \in {Empty, Corrupt}
    /\ Set(p, [proc[p] EXCEPT !.pc = "temp"])
    /\ UNCHANGED <<tmp, readers, writer, nextId, ops, tpl>>

\* tryDirectWrite: the text is written, then file.Sync fails.
tryDirectWriteSyncFail(p) ==
    /\ At(p, "direct")
    /\ file' = DocFile(proc[p].data)
    /\ Set(p, [proc[p] EXCEPT !.pc = "temp"])
    /\ UNCHANGED <<tmp, readers, writer, nextId, ops, tpl>>

\* os.WriteFile(tempFileName, jsonData) succeeds; the loop starts at attempt 1.
SaveTemp(p) ==
    /\ At(p, "temp")
    /\ tmp' = DocFile(proc[p].data)
    /\ Set(p, [proc[p] EXCEPT !.pc = "stat", !.attempt = 1])
    /\ UNCHANGED <<file, readers, writer, nextId, ops, tpl>>

\* os.WriteFile(tempFileName, jsonData) fails: "failed to write temporary file".
SaveTempFail(p) ==
    /\ At(p, "temp")
    /\ Set(p, [proc[p] EXCEPT !.pc = "unlock", !.err = "temp"])
    /\ UNCHANGED <<file, tmp, readers, writer, nextId, ops, tpl>>

\* The target exists (os.Stat) and os.Remove removes it.
SaveRemove(p) ==
    /\ At(p, "stat")
    /\ file.kind # "absent"
    /\ file' = Absent
    /\ Set(p, [proc[p] EXCEPT !.pc = "rename"])
    /\ UNCHANGED <<tmp, readers, writer, nextId, ops, tpl>>

\* The target does not exist, or os.Remove fails (its error is not looked at).
SaveRemoveNot(p) ==
    /\ At(p, "stat")
    /\ Set(p, [proc[p] EXCEPT !.pc = "rename"])
    /\ UNCHANGED <<file, tmp, readers, writer, nextId, ops, tpl>>

\* os.Rename succeeds: return nil.
SaveRename(p) ==
    /\ At(p, "rename")
    /\ file' = tmp
    /\ tmp' = Absent
    /\ Set(p, [proc[p] EXCEPT !.pc = "unlock"])
    /\ UNCHANGED <<readers, writer, nextId, ops, tpl>>

\* The rename loop with the bound attempt <= maxRetries + 1.
SaveRenameFailOneMore(p) ==
    /\ At(p, "rename")
    /\ Set(p, [proc[p] EXCEPT !.attempt = @ + 1,
                              !.pc = IF proc[p].attempt + 1 <= maxRetries + 1 THEN "stat"
                                     ELSE "cleanup"])
    /\ UNCHANGED <<file, tmp, readers, writer, nextId, ops, tpl>>

\* os.Rename fails: attempt++, and the loop ends when attempt > maxRetries.
SaveRenameFail(p) ==
    /\ At(p, "rename")
    /\ Set(p, [proc[p] EXCEPT !.attempt = @ + 1,
                              !.pc = IF proc[p].attempt + 1 <= maxRetries THEN "stat"
                                     ELSE "cleanup"])
    /\ UNCHANGED <<file, tmp, readers, writer, nextId, ops, tpl>>

\* All retries failed: os.Remove(tempFileName), "failed to save after %d attempts".
SaveCleanup(p) ==
    /\ At(p, "cleanup")
    /\ tmp' = Absent
    /\ Set(p, [proc[p] EXCEPT !.pc = "unlock", !.err = "retries",
                              !.errAttempts = maxRetries])
    /\ UNCHANGED <<file, readers, writer, nextId, ops, tpl>>

\* A handler that does not look at the error saveSavedRequests returns.
SaveUnlockHandlerIgnoreErr(p) ==
    /\ At(p, "unlock")
    /\ proc[p].from = "handler"
    /\ writer' = NoProc
    /\ Set(p, Answer(p, "ok"))
    /\ UNCHANGED <<file, tmp, readers, nextId, ops, tpl>>

\* The deferred fileAccessMutex.Unlock() and the return to the handler, which
\* answers 500 on an error and 200 otherwise.
SaveUnlockHandler(p) ==
    /\ At(p, "unlock")
    /\ proc[p].from = "handler"
    /\ writer' = NoProc
    /\ Set(p, Answer(p, IF proc[p].err = "" THEN "ok" ELSE "error"))
    /\ UNCHANGED <<file, tmp, readers, nextId, ops, tpl>>

\* saveSavedRequests returning to loadRequests without the deferred Unlock().
SaveReturnLoadNoUnlock(p) ==
    /\ At(p, "unlock")
    /\ proc[p].from = "load"
    /\ Set(p, [proc[p] EXCEPT !.pc = "fix_rlock", !.fixErr = proc[p].err, !.err = "",
                              !.errAttempts = 0, !.attempt = 0, !.prev = Absent])
    /\ UNCHANGED <<file, tmp, readers, writer, nextId, ops, tpl>>

\* The deferred Unlock() and the return to loadRequests, which logs an error of
\* the corrective save and goes on.
SaveUnlockLoad(p) ==
    /\ At(p, "unlock")
    /\ proc[p].from = "load"
    /\ writer' = NoProc
    /\ Set(p, [proc[p] EXCEPT !.pc = "fix_rlock", !.fixErr = proc[p].err, !.err = "",
                              !.errAttempts = 0, !.attempt = 0, !.prev = Absent])
    /\ UNCHANGED <<file, tmp, readers, nextId, ops, tpl>>

(* ------------------------- handlers, continued ------------------------- *)

\* loadRequests returns (the deferred RUnlock) to a handler other than proxy.
\* A load error is answered 500; requests answers with the data; groups answers
\* with ensureDefaultGroup(data); a mutating handler runs its body and either
\* answers the rejection or goes on to saveSavedRequests(data).
LoadReturn(p) ==
    /\ At(p, "ret")
    /\ proc[p].op.kind # "proxy"
    /\ readers' = readers \ {p}
    /\ IF proc[p].lerr
       THEN Set(p, Answer(p, "error")) /\ UNCHANGED nextId
       ELSE IF proc[p].op.kind \in {"requests", "environments"}
       THEN Set(p, Answer(p, "ok")) /\ UNCHANGED nextId
       ELSE IF proc[p].op.kind = "groups"
       THEN /\ Set(p, [Answer(p, "ok") EXCEPT
                          !.data = ensureDefaultGroup(proc[p].data, nextId)])
            /\ nextId' = IF hasDefaultGroup(proc[p].data) THEN nextId ELSE nextId + 1
       ELSE LET m == HandlerBody(proc[p].op, proc[p].data, nextId)
            IN  /\ nextId' = m.nid
                /\ IF m.status = "ok"
                   THEN Set(p, [proc[p] EXCEPT !.data = m.data, !.pc = "lock",
                                               !.from = "handler",
                                               !.newId = IF m.nid > nextId THEN nextId
                                                         ELSE 0])
                   ELSE Set(p, Answer(p, m.status))
    /\ UNCHANGED <<file, tmp, writer, ops, tpl>>

\* loadRequests returns to proxy (k = 0: the load of the environment data) or
\* to loadRequest inside processSubstitution (k > 0: the load for token k).
\* The first load's error, or a current environment that is not found, is
\* answered 500; a token whose load fails is skipped; after the last token the
\* request goes to the Executor and its result is the answer.
LoadReturnProxy(p) ==
    /\ At(p, "ret")
    /\ proc[p].op.kind = "proxy"
    /\ readers' = readers \ {p}
    /\ LET me == proc[p]
           snaps == IF me.lerr THEN me.snaps ELSE Append(me.snaps, me.data)
       IN  IF me.k = 0 /\ (me.lerr \/ ~getCurrentEnvironment(me.data).found)
           THEN Set(p, Answer(p, "error"))
           ELSE IF me.k < Len(me.op.tokens)
           THEN Set(p, [me EXCEPT !.snaps = snaps, !.k = me.k + 1, !.pc = "rlock"])
           ELSE Set(p, [Answer(p, "ok") EXCEPT !.snaps = snaps])
    /\ UNCHANGED <<file, tmp, writer, nextId, ops, tpl>>

(* ------------------------- template resolution ------------------------ *)

\* The last response bodies of the Documents below, as decoded values.
RespChain ==
    JObj(<<Member("nested", JObj(<<Member("x", JNum("5"))>>)), Member("token", JStr("abc"))>>)
RespSplice == JObj(<<Member("n", JNum("42")), Member("obj", JObj(<<Member("k", JNum("1"))>>))>>)
RespRich ==
    JObj(<<Member("arr", JArr(<<Element(JNum("1"))>>)), Member("flag", JBool(TRUE)),
           Member("n", JNum("42")), Member("nul", JNull),
           Member("obj", JObj(<<Member("k", JNum("1"))>>)),
           Member("response", JStr("inner")), Member("s", JStr("text"))>>)

\* A response that holds the token of a variable.
RespOrder == JObj(<<Member("t", JStr("{{b}}"))>>)

JSONValues ==
    {RespChain, RespSplice, RespRich, RespOrder, JNum("5"),
     JObj(<<Member("a", JNum("1"))>>), JObj(<<Member("t", JNum("1"))>>),
     JObj(<<Member("t", JNum("2"))>>)}

\* json.Unmarshal of a compact JSON text of the model into an any.
Decode(text) == Unmarshal(text).v

\* A stored body as the any that json.Unmarshal of the file yields.
asAny(body) ==
    CASE body.t = "nil" -> JNull
      [] body.t = "str" -> JStr(body.v)
      [] body.t = "json" -> Decode(body.v)

\* loadRequest on the Document its loadRequests returned: the index of the
\* first request of that name, or 0 (request not found).
loadRequest(requestName, data) ==
    IF \E i \in DOMAIN data.requests : data.requests[i].name = requestName
    THEN CHOOSE i \in DOMAIN data.requests :
             /\ data.requests[i].name = requestName
             /\ \A j \in 1..(i - 1) : data.requests[j].name # requestName
    ELSE 0

\* One round of the loop of processSubstitution up to the substitution:
\* skipped is that the round ends in continue.
resolveToken(match, data) ==
    LET ref == parseVariable(match)
        i == loadRequest(ref.requestName, data)
        skipped == ~ref.ok \/ i = 0 \/ ~data.requests[i].lastResponse.present
    IN  [ref |-> ref, skipped |-> skipped,
         field |-> IF skipped THEN FieldResult("", FALSE)
                   ELSE extractJSONField(asAny(data.requests[i].lastResponse.body),
                                         ref.fieldPath)]

\* One round of the loop of processSubstitution.
substitute(result, match, data) ==
    LET r == resolveToken(match, data)
    IN  IF r.skipped THEN result
        ELSE IF r.field.isObject THEN subJSONObject(result, match, r.field.value)
        ELSE ReplaceAll(result, match, r.field.value)

\* processSubstitution: the loop over the matches, from match i on.
RECURSIVE processSubstitution(_, _, _, _)
processSubstitution(result, responseMatches, i, data) ==
    IF i > Len(responseMatches) THEN result
    ELSE processSubstitution(substitute(result, responseMatches[i], data),
                             responseMatches, i + 1, data)

\* processTemplate on a store at rest, which every loadRequest finds as data.
processTemplate(input, variables, env, data) ==
    IF input = "" THEN input
    ELSE applyVariables(processSubstitution(input, responseMatchesOf(input), 1, data),
                        variables, 1, env)

\* A map[string]string is a function on its keys; m[k] = v on such a map.
Put(m, k, v) == [x \in DOMAIN m \cup {k} |-> IF x = k THEN v ELSE m[x]]

\* One call of processTemplates inside its loop over req.Headers: the keys the
\* range has still to visit, and processedHeaders.
HeaderRun(keys) == [left |-> keys, processedHeaders |-> <<>>]

TplIdle ==
    [pc |-> "idle", input |-> "", result |-> "", matches |-> <<>>, i |-> 0,
     variables |-> <<>>, env |-> <<>>, prev |-> "", last |-> resolveToken("", EmptyData),
     field |-> "text", body |-> NilBody, out |-> NilBody, headers |-> <<>>, runs |-> <<>>,
     sent |-> ""]

\* The texts a client puts into a templated field of a request.
TemplateInputs ==
    {"{{\"A\".token}}", "{{\"A\".nested.x}}", "{{\"R\".flag}}", "{{\"R\".n}}",
     "{{\"R\".s}}/{{\"A\".token}}",
     "{{\"A\".missing}}-{{\"A\".token}}", "{{\"R\".s.z}}-{{\"R\".n}}",
     "{{\"R\".arr.z}}{{\"R\".nul.z}}{{\"R\".n.z}}|{{\"R\".s}}", "{{\"S\".a}}{{\"R\".missing.z}}.",
     "{\"x\": \"{{\\\"A\\\".obj}}\"}", "x={{\"A\".obj}}", "{\"x\": \"{{\"R\".arr}}\"}",
     "{\"x\": \"{{\"A\".obj}}\", \"y\": {{\"A\".obj}}}",
     "{{\"A\".response}}", "{{\\\"A\\\".response}}", "{{\"S\".response}}",
     "{{\"R\".response}}",
     "{{\\\"A\\\".token}}", "{{ \"A\".nested }}",
     "{{\"A\"}}/{{\"A\".token}}", "{{\"a\".token}}/{{\"A\".token}}",
     "{{\"N\".token}}/{{\"A\".token}}", "{{\"A\".}}{{\"\".t}}{{\"A\".token}}",
     "{{\\\"A\\\".}}/{{\"A\".token}}",
     "{{token}}", "Bearer {{token}} at {{host}}", "{{ token }}{{nokey}}",
     "\"{{\\\"A\\\".n}}\"", "[{{\"R\".nul}}]", "\"{{\"M\".response}}\"",
     "{{}}", "{{host}}{{host}}", "{{{token}}/{{}}/{{ host }}",
     "{{a}}", "{{c}}", "{{d}}", "{{\"A\".t}}", "{{\"A\".t}}{{\"R\".t}}", "{{c}}/{{a}}/{{\"A\".t}}"}

\* The process environment: the names that are set, with their values.
OsEnvs ==
    {<<>>, <<Var("MY_TOKEN", "s3cr3t")>>, <<Var("MY_TOKEN", "")>>}

\* proxy up to processTemplate's search for tokens in one templated field:
\* loadRequests, getCurrentEnvironment, req.Variables = currentEnv.Variables,
\* FindAllString and the choice of the matches that hold a quote.
TemplateStart ==
    /\ tpl.pc = "idle"
    /\ \E input \in TemplateInputs, env \in OsEnvs :
           LET r == loadRequestsBody(file, nextId)
               cur == getCurrentEnvironment(r.data)
           IN  /\ cur.found
               /\ nextId' = r.nid
               /\ tpl' = [TplIdle EXCEPT
                             !.pc = "tokens", !.input = input, !.result = input,
                             !.matches = responseMatchesOf(input), !.i = 1,
                             !.variables =
                                 cur.data.environments[
                                     IndexOfId(cur.data.environments,
                                               cur.data.currentEnvironment)].variables,
                             !.env = env]
    /\ UNCHANGED <<file, tmp, readers, writer, ops, proc>>

\* A round of processSubstitution that searches its result for tokens again.
TemplateTokenRescan ==
    /\ tpl.pc = "tokens"
    /\ tpl.i <= Len(tpl.matches)
    /\ LET r == loadRequestsBody(file, nextId)
       IN  /\ nextId' = r.nid
           /\ tpl' = [tpl EXCEPT !.result = substitute(@, tpl.matches[tpl.i], r.data),
                                 !.prev = tpl.result,
                                 !.last = resolveToken(tpl.matches[tpl.i], r.data),
                                 !.matches = responseMatchesOf(
                                                 substitute(tpl.result, tpl.matches[tpl.i], r.data)),
                                 !.i = IF substitute(tpl.result, tpl.matches[tpl.i], r.data)
                                            = tpl.result THEN tpl.i + 1 ELSE 1]
    /\ UNCHANGED <<file, tmp, readers, writer, ops, proc>>

\* One round of processSubstitution: parseVariable, loadRequest (which loads the
\* Document again), extractJSONField and the substitution.
TemplateToken ==
    /\ tpl.pc = "tokens"
    /\ tpl.i <= Len(tpl.matches)
    /\ LET r == loadRequestsBody(file, nextId)
       IN  /\ nextId' = r.nid
           /\ tpl' = [tpl EXCEPT !.result = substitute(@, tpl.matches[tpl.i], r.data),
                                 !.prev = tpl.result,
                                 !.last = resolveToken(tpl.matches[tpl.i], r.data),
                                 !.i = @ + 1]
    /\ UNCHANGED <<file, tmp, readers, writer, ops, proc>>

\* The loop of processTemplate over the variables, after the last token.
TemplateVariables ==
    /\ tpl.pc = "tokens"
    /\ tpl.i > Len(tpl.matches)
    /\ tpl' = [tpl EXCEPT !.result = applyVariables(@, tpl.variables, 1, tpl.env),
                          !.pc = "done"]
    /\ UNCHANGED <<file, tmp, readers, writer, nextId, ops, proc>>

\* The bodies a client sends to the proxy: nil, strings, and objects and arrays
\* as json.Marshal writes them.
TemplateBodies ==
    {NilBody, StrBody("hello {{host}}"), StrBody("{ \"a\" : {{\"A\".n}} }"),
     StrBody("\"{{host}}\""),
     StrBody("hello"), StrBody("{ \"a\" : [1, true] }"), StrBody("12"), StrBody("{\"a\":"),
     StrBody("\"abc\""), StrBody("null"), StrBody(" "),
     JSONBody(Marshal(JObj(<<Member("a", JNum("1"))>>))),
     JSONBody(Marshal(JObj(<<Member("list", JArr(<<Element(JNull), Element(JBool(TRUE)),
                                                   Element(JObj(<<>>))>>)),
                             Member("m", JStr("say \"hi\" \\ there"))>>))),
     JSONBody(Marshal(JArr(<<Element(JStr("{{nokey}}")), Element(JArr(<<>>))>>))),
     JSONBody(Marshal(JObj(<<Member("x", JStr("{{\"A\".obj}}"))>>))),
     JSONBody(Marshal(JObj(<<Member("x", JStr("a {{\"A\".obj}}"))>>))),
     JSONBody(Marshal(JObj(<<Member("n", JStr("{{\"A\".n}}"))>>))),
     JSONBody(Marshal(JArr(<<Element(JStr("{{host}}")), Element(JNum("1"))>>))),
     JSONBody(Marshal(JObj(<<Member("example.com", JNum("2")),
                             Member("{{host}}", JNum("1"))>>)))}

\* proxy up to processTemplate's search for tokens in the body of the request:
\* as TemplateStart, on bodyToString(req.Body).
TemplateStartBody ==
    /\ tpl.pc = "idle"
    /\ \E body \in TemplateBodies, env \in OsEnvs :
           LET r == loadRequestsBody(file, nextId)
               cur == getCurrentEnvironment(r.data)
               bodyStr == bodyToString(body)
           IN  /\ cur.found
               /\ nextId' = r.nid
               /\ tpl' = [TplIdle EXCEPT
                             !.pc = "tokens", !.input = bodyStr, !.result = bodyStr,
                             !.matches = responseMatchesOf(bodyStr), !.i = 1,
                             !.variables =
                                 cur.data.environments[
                                     IndexOfId(cur.data.environments,
                                               cur.data.currentEnvironment)].variables,
                             !.env = env, !.field = "body", !.body = body]
    /\ UNCHANGED <<file, tmp, readers, writer, ops, proc>>

\* processTemplates keeping the processed body as the string it is.
TemplateParseKeepString ==
    /\ tpl.pc = "done"
    /\ tpl.field = "body"
    /\ tpl' = [tpl EXCEPT !.out = StrBody(tpl.result), !.pc = "parsed"]
    /\ UNCHANGED <<file, tmp, readers, writer, nextId, ops, proc>>

\* req.Body = parseJSON(processedBodyStr)
TemplateParse ==
    /\ tpl.pc = "done"
    /\ tpl.field = "body"
    /\ tpl' = [tpl EXCEPT !.out = parseJSON(StrBody(tpl.result)), !.pc = "parsed"]
    /\ UNCHANGED <<file, tmp, readers, writer, nextId, ops, proc>>

\* The header maps a client sends to the proxy: plain keys, keys and values
\* with tokens, and keys that are different texts before the substitution and
\* the same text after it.
HeaderMaps ==
    {<<>>,
     ("Accept" :> "text/plain") @@ ("Authorization" :> "Bearer {{token}}"),
     ("X-{{host}}" :> "{{\"A\".token}}") @@ ("{{\"R\".s}}" :> "x"),
     ("example.com" :> "1") @@ ("{{host}}" :> "2"),
     ("example.com" :> "{{host}}") @@ ("{{host}}" :> "example.com"),
     ("example.com" :> "1") @@ ("{{host}}" :> "2") @@ ("Accept" :> "{{host}}")}

\* proxy up to the loop over req.Headers, for two calls of processTemplates with
\* the same request, the same variables and the same store.
HeadersStart ==
    /\ tpl.pc = "idle"
    /\ \E headers \in HeaderMaps, env \in OsEnvs :
           LET r == loadRequestsBody(file, nextId)
               cur == getCurrentEnvironment(r.data)
           IN  /\ cur.found
               /\ nextId' = r.nid
               /\ tpl' = [TplIdle EXCEPT
                             !.pc = "headers", !.field = "headers", !.headers = headers,
                             !.variables =
                                 cur.data.environments[
                                     IndexOfId(cur.data.environments,
                                               cur.data.currentEnvironment)].variables,
                             !.env = env,
                             !.runs = <<HeaderRun(DOMAIN headers), HeaderRun(DOMAIN headers)>>]
    /\ UNCHANGED <<file, tmp, readers, writer, ops, proc>>

\* One round of for key, value := range req.Headers in one of the calls.  The
\* order in which range visits a map is not specified: any key not yet visited
\* may be the next.
HeadersNext ==
    /\ tpl.pc = "headers"
    /\ \E n \in DOMAIN tpl.runs : \E key \in tpl.runs[n].left :
           tpl' = [tpl EXCEPT
                      !.runs[n].left = @ \ {key},
                      !.runs[n].processedHeaders =
                          Put(@, processTemplate(key, tpl.variables, tpl.env,
                                                 loadRequestsBody(file, nextId).data),
                              processTemplate(tpl.headers[key], tpl.variables, tpl.env,
                                              loadRequestsBody(file, nextId).data))]
    /\ UNCHANGED <<file, tmp, readers, writer, nextId, ops, proc>>

\* req.Headers = processedHeaders, in both calls.
HeadersDone ==
    /\ tpl.pc = "headers"
    /\ \A n \in DOMAIN tpl.runs : tpl.runs[n].left = {}
    /\ tpl' = [tpl EXCEPT !.pc = "done"]
    /\ UNCHANGED <<file, tmp, readers, writer, nextId, ops, proc>>

\* makeHTTPRequest: bodyStr := bodyToString(req.Body), the text that goes to
\* the target as the body of the request.
TemplateSend ==
    /\ tpl.pc = "parsed"
    /\ tpl' = [tpl EXCEPT !.sent = bodyToString(tpl.out), !.pc = "sent"]
    /\ UNCHANGED <<file, tmp, readers, writer, nextId, ops, proc>>

(* ------------------------------ requests ------------------------------- *)

ReqNames == {"A", "B"}
EnvNames == {"Default", "Stage"}
GroupNames == {"default", "work"}
Bodies == {StrBody("{\"a\":1}"), StrBody("hello")}
Responses == {Response(JSONBody("{\"t\":1}")), Response(JSONBody("{\"t\":2}"))}
VarLists == {<<Var("k", "v")>>}

IdsOf(seq) == {seq[i].id : i \in DOMAIN seq}

\* The Documents a client has seen: the file's, and those the handlers hold.
SeenDocs == {file.doc} \cup {proc[q].data : q \in Procs}
SeenReqIds == UNION {IdsOf(d.requests) : d \in SeenDocs}
SeenEnvIds == UNION {IdsOf(d.environments) : d \in SeenDocs}
SeenGroupIds == UNION {IdsOf(d.groups) : d \in SeenDocs}

\* A goroutine starts to serve a request: the handler calls loadRequests.
Start(p, o) ==
    /\ At(p, "idle")
    /\ p = "g2" => ~At("g1", "idle")
    /\ ops < MaxOps
    /\ ops' = ops + 1
    /\ Set(p, [IdleProc EXCEPT !.pc = "rlock", !.op = o])
    /\ UNCHANGED <<file, tmp, readers, writer, nextId, tpl>>

StartRequests(p) == Start(p, [NoOp EXCEPT !.kind = "requests"])

StartGroups(p) == Start(p, [NoOp EXCEPT !.kind = "groups"])

StartEnvironments(p) == Start(p, [NoOp EXCEPT !.kind = "environments"])

StartSaveRequest(p) ==
    \E n \in ReqNames, g \in {""}, b \in Bodies :
        Start(p, [NoOp EXCEPT !.kind = "saveRequest", !.name = n, !.group = g, !.body = b])

\* saveRequest with a group named in the body.
StartSaveRequestIn(p) ==
    \E n \in ReqNames, g \in GroupNames :
        Start(p, [NoOp EXCEPT !.kind = "saveRequest", !.name = n, !.group = g,
                              !.body = StrBody("")])

\* updateRequest that moves a request to a group.
StartMoveRequest(p) ==
    \E d \in SeenDocs : \E i \in DOMAIN d.requests : \E g \in GroupNames :
        Start(p, [NoOp EXCEPT !.kind = "updateRequest", !.id = d.requests[i].id,
                              !.name = d.requests[i].name, !.group = g,
                              !.body = d.requests[i].body])

StartUpdateRequest(p) ==
    \E i \in SeenReqIds, n \in ReqNames, b \in Bodies, lr \in {NoResponse} :
        Start(p, [NoOp EXCEPT !.kind = "updateRequest", !.id = i, !.name = n,
                              !.body = b, !.lr = lr])

\* updateRequest as the page sends it after a proxy call: the request as it is,
\* with the Executor's result as lastResponse.
StartUpdateResponse(p) ==
    \E d \in SeenDocs : \E i \in DOMAIN d.requests : \E lr \in Responses :
        Start(p, [NoOp EXCEPT !.kind = "updateRequest", !.id = d.requests[i].id,
                              !.name = d.requests[i].name,
                              !.group = d.requests[i].group,
                              !.body = d.requests[i].body, !.lr = lr])

StartDeleteRequest(p) ==
    \E i \in SeenReqIds : Start(p, [NoOp EXCEPT !.kind = "deleteRequest", !.id = i])

StartDuplicateRequest(p) ==
    \E i \in SeenReqIds : Start(p, [NoOp EXCEPT !.kind = "duplicateRequest", !.id = i])

StartSaveVariables(p) ==
    \E v \in VarLists : Start(p, [NoOp EXCEPT !.kind = "saveVariables", !.vars = v])

StartCreateEnvironment(p) ==
    \E n \in EnvNames : Start(p, [NoOp EXCEPT !.kind = "createEnvironment", !.name = n])

StartUpdateEnvironment(p) ==
    \E i \in SeenEnvIds, n \in EnvNames \cup {""}, v \in VarLists, h \in BOOLEAN :
        Start(p, [NoOp EXCEPT !.kind = "updateEnvironment", !.id = i, !.name = n,
                              !.hasVars = h, !.vars = IF h THEN v ELSE <<>>])

StartDeleteEnvironment(p) ==
    \E i \in SeenEnvIds : Start(p, [NoOp EXCEPT !.kind = "deleteEnvironment", !.id = i])

StartCopyEnvironment(p) ==
    \E i \in SeenEnvIds, s \in SeenEnvIds :
        Start(p, [NoOp EXCEPT !.kind = "copyEnvironment", !.id = i, !.src = s])

StartActivateEnvironment(p) ==
    \E i \in SeenEnvIds : Start(p, [NoOp EXCEPT !.kind = "activateEnvironment", !.id = i])

StartCreateGroup(p) ==
    \E n \in GroupNames : Start(p, [NoOp EXCEPT !.kind = "createGroup", !.name = n])

StartDeleteGroup(p) ==
    \E i \in SeenGroupIds : Start(p, [NoOp EXCEPT !.kind = "deleteGroup", !.id = i])

StartSaveWordWrap(p) ==
    \E w \in BOOLEAN : Start(p, [NoOp EXCEPT !.kind = "handleSaveWordWrap", !.wordWrap = w])

\* proxy: a request whose templates hold one response token per listed name.
StartProxy(p) ==
    \E t \in {<<"A", "B">>} : Start(p, [NoOp EXCEPT !.kind = "proxy", !.tokens = t])

\* The results makeHTTPRequest hands to proxy: a response of the target, or a
\* ProxyResponse that holds only Error.
ExecErrors == {Response(NilBody)}

\* handleRequest of the page: POST /api/proxy for the selected request; the
\* Executor's result is what proxy will answer with.
StartExecute(p) ==
    \E id \in SeenReqIds, e \in BOOLEAN :
        \E lr \in IF e THEN ExecErrors ELSE Responses :
            Start(p, [NoOp EXCEPT !.kind = "proxy", !.id = id, !.lr = lr,
                                  !.execError = e, !.tokens = <<"A">>])

\* updateRequestResponse of the page, called by handleRequest when the answer
\* of proxy holds no error: PUT /api/requests/update with the request as the
\* page's list has it and the answer as lastResponse.
updateRequestResponse(p) ==
    /\ At(p, "idle")
    /\ proc[p].op.kind = "proxy" /\ proc[p].resp = "ok"
    /\ ~proc[p].op.execError
    /\ \E d \in SeenDocs : \E i \in DOMAIN d.requests :
           /\ d.requests[i].id = proc[p].op.id
           /\ Set(p, [IdleProc EXCEPT
                         !.pc = "rlock",
                         !.op = [NoOp EXCEPT !.kind = "updateRequest",
                                             !.id = d.requests[i].id,
                                             !.name = d.requests[i].name,
                                             !.group = d.requests[i].group,
                                             !.body = d.requests[i].body,
                                             !.lr = proc[p].op.lr, !.exec = TRUE]])
    /\ UNCHANGED <<file, tmp, readers, writer, nextId, ops, tpl>>

(* --------------------------- initial files ----------------------------- *)

\* Documents the file may hold when the server starts: written by an earlier
\* run, by an older version of the program, or edited by hand.

\* Two requests, two environments, two groups: nothing to migrate.
DocTwo ==
    [requests |-> <<Req(1, "A", "default", JSONBody("{\"a\":1}"),
                        Response(JSONBody("{\"t\":1}"))),
                    Req(2, "B", "work", StrBody(""), Response(JSONBody("{\"t\":1}")))>>,
     variables |-> <<>>,
     environments |-> <<Env(3, "Default", <<>>), Env(4, "Stage", <<>>)>>,
     currentEnvironment |-> 3,
     groups |-> <<Grp(5, "default"), Grp(6, "work")>>,
     wordWrap |-> FALSE]

\* Two requests of the same name (a manual edit).
DocDup ==
    [requests |-> <<Req(1, "A", "default", StrBody(""), NoResponse),
                    Req(2, "A", "default", StrBody(""), NoResponse)>>,
     variables |-> <<>>,
     environments |-> <<Env(3, "Default", <<>>)>>,
     currentEnvironment |-> 3,
     groups |-> <<Grp(4, "default")>>,
     wordWrap |-> FALSE]

\* A file of the first version: legacy variables, no environments, no groups,
\* a request without a group whose body is a JSON text.
DocLegacy ==
    [requests |-> <<Req(1, "A", "", StrBody("{\"a\":1}"), NoResponse)>>,
     variables |-> <<Var("k", "v")>>,
     environments |-> <<>>,
     currentEnvironment |-> 0,
     groups |-> <<>>,
     wordWrap |-> FALSE]

\* currentEnvironment names an environment that is not in the list.
DocDangling ==
    [requests |-> <<>>,
     variables |-> <<>>,
     environments |-> <<Env(1, "Default", <<>>), Env(2, "Stage", <<>>)>>,
     currentEnvironment |-> 3,
     groups |-> <<Grp(4, "default")>>,
     wordWrap |-> FALSE]

\* Three groups: default, one that holds a request, one that holds none.
DocSpare ==
    [requests |-> <<Req(1, "A", "work", StrBody(""), NoResponse)>>,
     variables |-> <<>>,
     environments |-> <<Env(2, "Default", <<>>)>>,
     currentEnvironment |-> 2,
     groups |-> <<Grp(3, "default"), Grp(4, "work"), Grp(5, "spare")>>,
     wordWrap |-> FALSE]

\* Requests with recorded responses: A, R and S (a body that is not JSON),
\* and N, never executed; the current environment has two variables and a
\* variable without a key.
DocChain ==
    [requests |-> <<Req(1, "A", "default", StrBody(""), Response(JSONBody(Marshal(RespChain)))),
                    Req(2, "R", "default", StrBody(""), Response(JSONBody(Marshal(RespRich)))),
                    Req(3, "S", "default", StrBody(""), Response(StrBody("plain text"))),
                    Req(4, "N", "default", StrBody(""), NoResponse)>>,
     variables |-> <<>>,
     environments |-> <<Env(5, "Default", <<Var("token", "$MY_TOKEN"),
                                            Var("host", "example.com"),
                                            Var("", "E")>>)>>,
     currentEnvironment |-> 5,
     groups |-> <<Grp(6, "default")>>,
     wordWrap |-> FALSE]

\* As DocChain, with another last response of A and a request M whose last
\* response body is a number.
DocSplice ==
    [DocChain EXCEPT
        !.requests[1].lastResponse = Response(JSONBody(Marshal(RespSplice))),
        !.requests = Append(@, Req(7, "M", "default", StrBody(""), Response(JSONBody("5"))))]

\* A request with two copies, the second of which has been renamed by hand.
DocCopies ==
    [DocTwo EXCEPT !.requests =
        <<Req(1, "A", "default", JSONBody("{\"a\":1}"), Response(JSONBody("{\"t\":1}"))),
          Req(2, "A (Copy)", "default", JSONBody("{\"a\":1}"), NoResponse),
          Req(7, "A (Copy) (3)", "work", StrBody("hello"), NoResponse)>>]

\* As DocChain, with variables whose values hold tokens: a names the later
\* variable b, c the earlier variable a, d a response; A's last response holds
\* the token of b.
DocOrder ==
    [DocChain EXCEPT
        !.requests[1].lastResponse = Response(JSONBody(Marshal(RespOrder))),
        !.environments[1].variables =
            <<Var("a", "{{b}}"), Var("b", "B"), Var("c", "{{a}}"),
              Var("d", "{{\"A\".t}}")>>]

\* As DocChain, with last responses of A and R that hold a token naming the
\* other request.
DocCycle ==
    [DocChain EXCEPT
        !.requests[1].lastResponse =
            Response(JSONBody(Marshal(JObj(<<Member("t", JStr("{{\"R\".t}}"))>>)))),
        !.requests[2].lastResponse =
            Response(JSONBody(Marshal(JObj(<<Member("t", JStr("{{\"A\".t}}"))>>))))]

\* A Document without environments and without legacy variables.
DocBare ==
    [EmptyData EXCEPT !.requests = <<Req(1, "A", "default", StrBody(""), NoResponse)>>,
                      !.groups = <<Grp(2, "default")>>]

\* Documents whose requests have these names, in this order.
MaxReqs == 3
DedupNames == {"A", "A (2)", "B"}
DocNamed(names) ==
    [DocTwo EXCEPT !.requests =
        [i \in DOMAIN names |-> Req(6 + i, names[i], "default", StrBody(""), NoResponse)]]
DedupFiles ==
    {DocFile(DocNamed(names)) : names \in UNION {[1..n -> DedupNames] : n \in 1..MaxReqs}}

InitFiles ==
    {Absent, Empty, Corrupt, Mistyped(DocDup),
     DocFile(DocTwo), DocFile(DocDup), DocFile(DocLegacy), DocFile(DocDangling)}

Max(S) == CHOOSE x \in S : \A y \in S : y <= x

\* The ids a Document holds; currentEnvironment is one of them when set.
AllIds(d) ==
    IdsOf(d.requests) \cup IdsOf(d.environments) \cup IdsOf(d.groups)
        \cup {d.currentEnvironment}

InitWith(files) ==
    /\ file \in files
    /\ tmp = Absent
    /\ readers = {}
    /\ writer = NoProc
    /\ nextId = Max(AllIds(file.doc)) + 1
    /\ ops = 0
    /\ proc = [p \in Procs |-> IdleProc]
    /\ tpl = TplIdle

Init == InitWith(InitFiles)

(* ---------------------------- specifications --------------------------- *)

\* loadRequests and saveSavedRequests, every file operation succeeding.
Steps(p) ==
    \/ LoadRLock(p) \/ LoadRead(p) \/ LoadFixRUnlock(p) \/ LoadFixRLock(p)
    \/ LoadReturn(p)
    \/ SaveLock(p) \/ tryDirectWrite(p) \/ SaveUnlockHandler(p) \/ SaveUnlockLoad(p)

\* The file operations failing, and the fallback path of saveSavedRequests.
Faults(p) ==
    \/ LoadReadFail(p)
    \/ tryDirectWriteOpenFail(p) \/ tryDirectWriteWriteFail(p) \/ tryDirectWriteSyncFail(p)
    \/ SaveTemp(p) \/ SaveTempFail(p) \/ SaveRemove(p) \/ SaveRemoveNot(p)
    \/ SaveRename(p) \/ SaveRenameFail(p) \/ SaveCleanup(p)

\* The request handlers that create, rename, duplicate and list requests.
Next ==
    \E p \in Procs :
        \/ Steps(p)
        \/ StartRequests(p) \/ StartSaveRequest(p) \/ StartUpdateRequest(p)
        \/ StartDuplicateRequest(p)

Spec == Init /\ [][Next]_vars

\* The environment handlers.
NextEnv ==
    \E p \in Procs :
        \/ Steps(p)
        \/ StartCreateEnvironment(p) \/ StartDeleteEnvironment(p)
        \/ StartActivateEnvironment(p)

SpecEnv ==
    InitWith({Absent, DocFile(DocTwo), DocFile(DocDup), DocFile(DocLegacy),
              DocFile(DocDangling)})
        /\ [][NextEnv]_vars

\* The group handlers.
NextGroup ==
    \E p \in Procs :
        \/ Steps(p)
        \/ StartGroups(p) \/ StartCreateGroup(p) \/ StartDeleteGroup(p)

SpecGroup ==
    InitWith({Absent, Empty, Corrupt, DocFile(DocTwo), DocFile(DocDup), DocFile(DocLegacy),
              DocFile(DocSpare)})
        /\ [][NextGroup]_vars

\* saveRequest and requests on a disk whose operations may fail.
NextIO ==
    \E p \in Procs :
        \/ Steps(p)
        \/ Faults(p)
        \/ StartRequests(p) \/ StartSaveRequest(p)

SpecIO == InitWith({DocFile(DocDup)}) /\ [][NextIO]_vars

\* proxy, beside updateRequest calls that record responses.
NextProxy ==
    \E p \in Procs :
        \/ Steps(p)
        \/ LoadReturnProxy(p)
        \/ StartProxy(p) \/ StartUpdateResponse(p)

SpecProxy ==
    InitWith({Absent, DocFile(DocTwo), DocFile(DocDup)}) /\ [][NextProxy]_vars

\* duplicateRequest on requests that have copies already.
NextCopy ==
    \E p \in Procs :
        \/ Steps(p)
        \/ StartRequests(p) \/ StartDuplicateRequest(p)

SpecCopy == InitWith({DocFile(DocCopies), DocFile(DocDup)}) /\ [][NextCopy]_vars

\* The page executing saved requests.
NextExec ==
    \E p \in Procs :
        \/ Steps(p)
        \/ LoadReturnProxy(p)
        \/ StartExecute(p) \/ updateRequestResponse(p)

SpecExec == InitWith({DocFile(DocTwo), DocFile(DocDup)}) /\ [][NextExec]_vars

\* The environment handlers that address an environment by its id, without
\* deleteEnvironment.
NextEnvIds ==
    \E p \in Procs :
        \/ Steps(p)
        \/ StartEnvironments(p) \/ StartUpdateEnvironment(p)
        \/ StartActivateEnvironment(p) \/ StartCopyEnvironment(p)

SpecEnvIds ==
    InitWith({Absent, Empty, Corrupt, DocFile(DocBare), DocFile(DocLegacy), DocFile(DocTwo),
              DocFile(DocDup)})
        /\ [][NextEnvIds]_vars

\* loadRequests with its corrective save, on Documents edited by hand.
NextDedup ==
    \E p \in Procs :
        \/ StartRequests(p)
        \/ LoadRLock(p) \/ LoadRead(p) \/ LoadFixRUnlock(p)
        \/ SaveLock(p) \/ tryDirectWrite(p) \/ SaveUnlockLoad(p)
        \/ LoadFixRLock(p) \/ LoadReturn(p)

SpecDedup == InitWith(DedupFiles) /\ [][NextDedup]_vars

\* The failures of os.ReadFile, of the direct write and of the fallback path,
\* each leaving the file as it is or absent.
DiskFaults(p) ==
    \/ LoadReadFail(p)
    \/ tryDirectWriteOpenFail(p)
    \/ SaveTemp(p) \/ SaveTempFail(p) \/ SaveRemove(p) \/ SaveRemoveNot(p)
    \/ SaveRename(p) \/ SaveRenameFail(p) \/ SaveCleanup(p)

\* Loads, saves and loads with a corrective save, beside each other.
NextLive ==
    \E p \in Procs :
        \/ Steps(p)
        \/ DiskFaults(p)
        \/ StartRequests(p) \/ StartSaveWordWrap(p)

\* A goroutine that can take its next step takes it: the Go scheduler runs
\* every runnable goroutine, and sync.RWMutex wakes a goroutine that waits
\* for a lock which has become free.
Fairness == \A p \in Procs : WF_vars(Steps(p) \/ DiskFaults(p))

SpecLive == InitWith({DocFile(DocDup), Corrupt}) /\ [][NextLive]_vars /\ Fairness

\* Requests created in and moved to groups, beside the group handlers.
NextGroupRef ==
    \E p \in Procs :
        \/ Steps(p)
        \/ StartRequests(p) \/ StartSaveRequestIn(p) \/ StartMoveRequest(p)
        \/ StartCreateGroup(p) \/ StartDeleteGroup(p)

SpecGroupRef ==
    InitWith({Absent, DocFile(DocTwo), DocFile(DocDup), DocFile(DocLegacy), DocFile(DocSpare)})
        /\ [][NextGroupRef]_vars

\* updateRequest with and without a lastResponse, on requests with and
\* without a recorded one.
NextUpdate ==
    \E p \in Procs :
        \/ Steps(p)
        \/ StartRequests(p) \/ StartUpdateRequest(p) \/ StartUpdateResponse(p)

SpecUpdate ==
    InitWith({DocFile(DocTwo), DocFile(DocDup), DocFile(DocCopies)}) /\ [][NextUpdate]_vars

\* The resolution of the templates of one field, on a store that is at rest.
NextTemplate == TemplateStart \/ TemplateToken \/ TemplateVariables

SpecTemplate == InitWith({DocFile(DocChain), DocFile(DocSplice), DocFile(DocOrder)}) /\ [][NextTemplate]_vars

\* The same on a store whose last responses name each other.
SpecResolve == InitWith({DocFile(DocChain), DocFile(DocCycle)}) /\ [][NextTemplate]_vars

\* processTemplates on the body of a request to the proxy.
NextBody ==
    \/ TemplateStartBody \/ TemplateToken \/ TemplateVariables \/ TemplateParse
    \/ TemplateSend
SpecBody == InitWith({DocFile(DocChain), DocFile(DocSplice)}) /\ [][NextBody]_vars

\* processTemplates on the headers of a request to the proxy.
NextHeaders == HeadersStart \/ HeadersNext \/ HeadersDone
SpecHeaders == InitWith({DocFile(DocChain), DocFile(DocSplice)}) /\ [][NextHeaders]_vars

(* ------------------------------ properties ----------------------------- *)

NoDupNames(d) ==
    \A i, j \in DOMAIN d.requests : i # j => d.requests[i].name # d.requests[j].name

EnvOK(d) ==
    /\ Len(d.environments) > 0
    /\ \E i \in DOMAIN d.environments : d.environments[i].id = d.currentEnvironment

\* The goroutine is inside saveSavedRequests, between Lock and Unlock.
Writing(p) == proc[p].pc \in {"direct", "temp", "stat", "rename", "cleanup", "unlock"}

\* The goroutine is inside loadRequests at os.Stat / os.ReadFile.
Reading(p) == proc[p].pc = "read"

\* C1: after creates, duplicates and renames, no two requests of the Document
\* that loadRequests returns have the same name.
C1_UniqueNamesAfterLoad ==
    \A p \in Procs : At(p, "ret") /\ ~proc[p].lerr => NoDupNames(proc[p].data)

\* C2: after environment creates, deletes and activates, the persisted
\* environments list is non-empty and currentEnvironment is the id of one of
\* its environments.
C2_EnvironmentInvariant ==
    \A p \in Procs :
        At(p, "unlock") /\ proc[p].from = "handler" /\ proc[p].err = ""
            => file = DocFile(proc[p].data) /\ EnvOK(file.doc)

\* C3: saveSavedRequests is atomic on the file: while it runs the file holds the
\* previous Document or the new one, and when it returns an error the file
\* still holds the previous Document.
C3_SaveAtomic ==
    \A p \in Procs :
        Writing(p) =>
            /\ file \in {proc[p].prev, DocFile(proc[p].data)}
            /\ At(p, "unlock") /\ proc[p].err # "" => file = proc[p].prev

\* C4: the rename is attempted at most maxRetries = 5 times; after the fifth
\* failure the temp file is removed and the error names 5 attempts; a rename
\* that succeeds after k < 5 failures ends the save without an error, the file
\* holding the new Document.
C4_RenameRetries ==
    \A p \in Procs :
        /\ proc[p].pc \in {"stat", "rename"} => proc[p].attempt \in 1..maxRetries
        /\ At(p, "cleanup") => proc[p].attempt = maxRetries + 1
        /\ At(p, "unlock") /\ proc[p].err = "retries"
               => /\ proc[p].attempt = maxRetries + 1
                  /\ proc[p].errAttempts = 5
                  /\ tmp = Absent
        /\ At(p, "unlock") /\ proc[p].attempt \in 1..maxRetries
               => /\ proc[p].err = ""
                  /\ file = DocFile(proc[p].data)
                  /\ tmp = Absent

\* One save has failed after five renames and been answered as an error, and
\* another has succeeded at its third rename, after two failures.
C4_FiveFailuresAndTwoThenSuccess ==
    \E p, q \in Procs :
        /\ At(p, "idle") /\ proc[p].resp = "error"
        /\ proc[p].err = "retries" /\ proc[p].errAttempts = 5
        /\ At(q, "unlock") /\ proc[q].attempt = 3 /\ proc[q].err = ""
        /\ file = DocFile(proc[q].data)

\* C5: while a goroutine is inside saveSavedRequests (the corrective save of
\* loadRequests included) it holds the write lock, no other goroutine is inside
\* saveSavedRequests and none is reading the file; and a loadRequests is never
\* kept waiting by other loadRequests that are reading.
C5_MutualExclusion ==
    \A p \in Procs :
        /\ Writing(p) =>
               /\ writer = p
               /\ readers = {}
               /\ \A q \in Procs \ {p} : ~Writing(q) /\ ~Reading(q)
        /\ Reading(p) => p \in readers /\ writer = NoProc
        /\ At(p, "rlock") /\ writer = NoProc => ENABLED LoadRLock(p)

\* A corrective save is in its rename loop, the file removed, while the other
\* goroutine waits for the lock.
C5_CorrectiveSaveExcludes ==
    \E p, q \in Procs :
        /\ At(p, "rename") /\ proc[p].from = "load" /\ file = Absent
        /\ proc[q].pc \in {"rlock", "lock"}

\* C6: the Load -> mutate -> Save cycle of a handler is guarded by the lock,
\* so when two handlers that each create a request run concurrently and both
\* answer success, the persisted Document holds both new requests.
C6_NoLostUpdate ==
    \A p, q \in Procs :
        /\ p # q
        /\ At(p, "idle") /\ proc[p].resp = "ok" /\ proc[p].newId # 0
        /\ At(q, "idle") /\ proc[q].resp = "ok" /\ proc[q].newId # 0
        => {proc[p].newId, proc[q].newId} \subseteq IdsOf(file.doc.requests)

\* What template resolution reads of a Document: the requests with their
\* last responses, and the variables of the current environment.
View(d) ==
    [requests |-> d.requests,
     variables |-> IF getCurrentEnvironment(d).found
                   THEN LET e == getCurrentEnvironment(d).data
                        IN  e.environments[IndexOfId(e.environments,
                                                     e.currentEnvironment)].variables
                   ELSE <<>>]

\* C7: the variables and every response token of one proxy call are resolved
\* against one and the same Document snapshot.
C7_OneSnapshot ==
    \A p \in Procs :
        At(p, "idle") /\ proc[p].op.kind = "proxy" /\ proc[p].resp = "ok"
            => \A i, j \in DOMAIN proc[p].snaps :
                   View(proc[p].snaps[i]) = View(proc[p].snaps[j])

\* C8: between its read and its corrective save loadRequests holds no lock, and
\* the corrective save writes the repair of the Document that was read,
\* whatever the file holds by then.
C8_CorrectiveSaveNotAtomic ==
    \A p \in Procs :
        /\ At(p, "lock") /\ proc[p].from = "load"
               => p \notin readers /\ writer # p /\ ~NoDupNames(proc[p].seen.doc)
        /\ At(p, "unlock") /\ proc[p].from = "load"
               => /\ file = DocFile(proc[p].data)
                  /\ proc[p].data.requests = loadParsed(proc[p].seen.doc, 0).data.requests

\* The clobber: after this loadRequests read the file another handler created a
\* request, saved and answered success; the corrective save has overwritten
\* that Document with the repair of the stale one, and the new request is gone.
C8_Clobbered ==
    \E p, q \in Procs :
        /\ At(p, "unlock") /\ proc[p].from = "load"
        /\ At(q, "idle") /\ proc[q].resp = "ok" /\ proc[q].newId # 0
        /\ proc[p].prev = DocFile(proc[q].data)
        /\ proc[p].prev # proc[p].seen
        /\ file = DocFile(proc[p].data)
        /\ proc[q].newId \notin IdsOf(file.doc.requests)

\* C9 as the specification states it: every failed saveSavedRequests is
\* reported as a failure by the operation that called it, loadRequests with a
\* failed corrective save included.
C9_EveryFailedSaveReported ==
    \A p \in Procs :
        /\ At(p, "idle") /\ proc[p].err # "" => proc[p].resp = "error"
        /\ At(p, "ret") /\ proc[p].fixErr # "" => proc[p].lerr

\* C9, amended: a handler whose saveSavedRequests fails answers with an error;
\* loadRequests whose corrective save fails returns the repaired Document and
\* no error.
C9_HandlerSaveFailureReported ==
    \A p \in Procs :
        /\ At(p, "idle") /\ proc[p].err # "" => proc[p].resp = "error"
        /\ At(p, "ret") /\ proc[p].fixErr # ""
               => ~proc[p].lerr /\ NoDupNames(proc[p].data)
        /\ At(p, "idle") /\ proc[p].op.kind = "requests" /\ proc[p].fixErr # ""
               => proc[p].resp = "ok"

\* One handler has answered an error for its failed save, and a loadRequests
\* is about to return after its corrective save failed.
C9_BothFailures ==
    \E p, q \in Procs :
        /\ At(p, "idle") /\ proc[p].err # "" /\ proc[p].resp = "error"
        /\ At(q, "ret") /\ proc[q].fixErr # ""

\* C10: every Document loadRequests returns, and every Document a group
\* handler persists, has a group named "default".
C10_DefaultGroupAlways ==
    \A p \in Procs :
        /\ At(p, "ret") /\ ~proc[p].lerr => hasDefaultGroup(proc[p].data)
        /\ At(p, "unlock") /\ proc[p].from = "handler" => hasDefaultGroup(file.doc)

\* C11: the Document loadRequests returns for a file that parses has a
\* currentEnvironment that is the id of exactly one of its environments.
C11_CurrentEnvironmentRepaired ==
    \A p \in Procs :
        At(p, "ret") /\ ~proc[p].lerr /\ proc[p].seen.kind = "doc"
            => Cardinality({i \in DOMAIN proc[p].data.environments :
                               proc[p].data.environments[i].id
                                   = proc[p].data.currentEnvironment}) = 1

\* C12: deleteGroup of a group that exists goes on to save if and only if the
\* group is not "default" and no request is in it, and then the Document it
\* saves is the loaded one without that group; otherwise it answers a
\* rejection without saving, and the file stays as it is.  A deleteGroup that
\* answered success has saved a Document without the group.
C12_DeleteGroupGuard ==
    /\ [][\A p \in Procs :
            At(p, "ret") /\ proc[p].op.kind = "deleteGroup" /\ ~proc[p].lerr
                /\ proc'[p].pc # "ret"
                /\ IndexOfId(proc[p].data.groups, proc[p].op.id) # 0
            => LET d == proc[p].data
                   i == IndexOfId(d.groups, proc[p].op.id)
                   deletable ==
                       /\ d.groups[i].name # "default"
                       /\ \A j \in DOMAIN d.requests : d.requests[j].group # d.groups[i].name
               IN  IF deletable
                   THEN /\ proc'[p].pc = "lock" /\ proc'[p].from = "handler"
                        /\ proc'[p].data = [d EXCEPT !.groups = RemoveAt(@, i)]
                   ELSE /\ proc'[p].pc = "idle" /\ proc'[p].resp = "badrequest"
                        /\ proc'[p].data = d
                        /\ file' = file]_vars
    /\ [](\A p \in Procs :
            At(p, "idle") /\ proc[p].op.kind = "deleteGroup" /\ proc[p].resp = "ok"
                => proc[p].op.id \notin IdsOf(proc[p].data.groups))

\* The group that holds no request has been deleted and the file holds the
\* Document without it; the deletion of the group that holds a request has
\* been rejected.
C12_DeletedAndRejected ==
    \E p, q \in Procs :
        /\ At(p, "idle") /\ proc[p].op.kind = "deleteGroup" /\ proc[p].resp = "ok"
        /\ file = DocFile(proc[p].data)
        /\ IdsOf(file.doc.groups) = IdsOf(DocSpare.groups) \ {proc[p].op.id}
        /\ file.doc.requests = DocSpare.requests
        /\ At(q, "idle") /\ proc[q].op.kind = "deleteGroup" /\ proc[q].resp = "badrequest"

\* The round of processSubstitution that has just run: its token, and the
\* decoded last response body of the request the token names.
AfterToken == tpl.pc = "tokens" /\ tpl.i > 1
LastMatch == tpl.matches[tpl.i - 1]
LastBody ==
    LET data == loadRequestsBody(file, nextId).data
    IN  asAny(data.requests[loadRequest(tpl.last.ref.requestName, data)].lastResponse.body)

\* The segments of a dot path: its parts between dots, the empty ones left out.
Segments(fieldPath) == SelectSeq(Split(fieldPath, "."), LAMBDA part : part # "")

\* The value a dot path reaches in a decoded body, key by key, or none.
RECURSIVE Reach(_, _, _)
Reach(v, parts, i) ==
    IF i > Len(parts) THEN v
    ELSE IF v.k = "object" /\ HasKey(v, parts[i]) THEN Reach(Lookup(v, parts[i]), parts, i + 1)
    ELSE [k |-> "none", s |-> "", c |-> <<>>]

LastLeaf == Reach(LastBody, Segments(tpl.last.ref.fieldPath), 1)

\* The two resolutions the claim C13 gives for the body
\* {"token":"abc","nested":{"x":5}} of A.
ChainExamples ==
    tpl.pc = "done" /\ file = DocFile(DocChain)
        => /\ tpl.input = "{{\"A\".token}}" => tpl.result = "abc"
           /\ tpl.input = "{{\"A\".nested.x}}" => tpl.result = "5"

C14_AbsenceIsEmpty ==
    /\ AfterToken /\ ~tpl.last.skipped /\ tpl.last.ref.fieldPath # "response"
           /\ LastLeaf.k = "none"
           => /\ tpl.last.field = FieldResult("", FALSE)
              /\ tpl.result = ReplaceAll(tpl.prev, LastMatch, "")
              /\ tpl.pc \in {"tokens", "done"}
    /\ tpl.pc = "done"
           => /\ tpl.i = Len(tpl.matches) + 1
              /\ tpl.input = "{{\"A\".missing}}-{{\"A\".token}}" /\ file = DocFile(DocChain)
                     => tpl.result = "-abc"
              /\ tpl.input = "{{\"R\".arr.z}}{{\"R\".nul.z}}{{\"R\".n.z}}|{{\"R\".s}}"
                     => tpl.result = "|text"
              /\ tpl.input = "{{\"S\".a}}{{\"R\".missing.z}}." => tpl.result = "."

\* A missing key and then a string leaf of the same body have been resolved.
C14_MissingThenToken ==
    /\ tpl.pc = "done" /\ file = DocFile(DocChain)
    /\ tpl.input = "{{\"A\".missing}}-{{\"A\".token}}" /\ tpl.result = "-abc"

\* The JSON text the last token stands for when it names an object or an array:
\* the whole body for the path "response", the value the path reaches otherwise.
LastStructure ==
    IF tpl.last.ref.fieldPath = "response" THEN LastBody ELSE LastLeaf

\* C15: a response token that resolves to an object or an array replaces the
\* token together with the double quotes around it where the input holds it
\* quoted, and the bare token where it does not; {"x": "{{\"A\".obj}}"} becomes
\* {"x": {"k":1}} and x={{"A".obj}} becomes x={"k":1}.
C15_StructureSplicedRaw ==
    /\ AfterToken /\ ~tpl.last.skipped /\ LastStructure.k \in {"object", "array"}
           => LET quoted == "\"" \o LastMatch \o "\""
              IN  /\ tpl.last.field = FieldResult(Marshal(LastStructure), TRUE)
                  /\ tpl.result = IF Contains(tpl.prev, quoted)
                                  THEN ReplaceAll(tpl.prev, quoted, Marshal(LastStructure))
                                  ELSE ReplaceAll(tpl.prev, LastMatch, Marshal(LastStructure))
    /\ tpl.pc = "done" /\ file = DocFile(DocSplice)
           => /\ tpl.input = "{\"x\": \"{{\\\"A\\\".obj}}\"}" => tpl.result = "{\"x\": {\"k\":1}}"
              /\ tpl.input = "x={{\"A\".obj}}" => tpl.result = "x={\"k\":1}"

\* The quoted token of a JSON body has been replaced by the object.
C15_QuotedSpliced ==
    /\ tpl.pc = "done" /\ file = DocFile(DocSplice)
    /\ tpl.input = "{\"x\": \"{{\\\"A\\\".obj}}\"}" /\ tpl.result = "{\"x\": {\"k\":1}}"
    /\ tpl.last.field.isObject

\* C16: a token written with escaped quotes resolves as the same token written
\* with plain quotes does: the same value, the same isObject flag and the same
\* full-response flag; {{"A".response}} and {{\"A\".response}} both give the
\* whole last response body of A.
C16_QuoteStylesEquivalent ==
    /\ AfterToken /\ Contains(LastMatch, "\\\"")
           => LET plain == resolveToken(ReplaceAll(LastMatch, "\\\"", "\""),
                                        loadRequestsBody(file, nextId).data)
              IN  /\ tpl.last.skipped = plain.skipped
                  /\ tpl.last.field = plain.field
                  /\ tpl.last.ref.isResponse = plain.ref.isResponse
    /\ tpl.pc = "done" /\ file = DocFile(DocChain)
           /\ tpl.input \in {"{{\"A\".response}}", "{{\\\"A\\\".response}}"}
           => tpl.result = Marshal(RespChain)

\* The requests of the stored document that have exactly this name.
Named(requestName) ==
    LET requests == loadRequestsBody(file, nextId).data.requests
    IN  {i \in DOMAIN requests : requests[i].name = requestName}

\* A token that is no well-formed reference: delimiters missing, no opening
\* quote of either style, no terminator (the closing quote of the same style and
\* a dot), or nothing before or nothing after the terminator.
Malformed(token) ==
    \/ ~HasPrefix(token, "{{") \/ ~HasSuffix(token, "}}")
    \/ LET content == TrimSpace(Slice(token, 2, Len(token) - 2))
           quote == IF HasPrefix(content, "\\\"") THEN "\\\"" ELSE "\""
           rest == SliceFrom(content, Len(quote))
           end == Index(rest, quote \o ".")
       IN  \/ ~HasPrefix(content, quote)
           \/ end <= 0
           \/ SliceFrom(rest, end + Len(quote) + 1) = ""

\* C17: a response token that does not parse, that names no stored request
\* (names compared exactly, case included) or that names a request without
\* lastResponse stays in the text as it is, nothing fails, and the other tokens
\* of the same input are resolved.
C17_UnresolvableLeftLiterally ==
    /\ AfterToken
           /\ \/ Malformed(LastMatch)
              \/ Named(tpl.last.ref.requestName) = {}
              \/ \A i \in Named(tpl.last.ref.requestName) :
                     ~loadRequestsBody(file, nextId).data.requests[i].lastResponse.present
           => tpl.result = tpl.prev /\ tpl.pc \in {"tokens", "done"}
    /\ tpl.pc = "done"
           => /\ tpl.i = Len(tpl.matches) + 1
              /\ file = DocFile(DocChain)
                     => /\ tpl.input = "{{\"A\"}}/{{\"A\".token}}" => tpl.result = "{{\"A\"}}/abc"
                        /\ tpl.input = "{{\"a\".token}}/{{\"A\".token}}"
                               => tpl.result = "{{\"a\".token}}/abc"
                        /\ tpl.input = "{{\"N\".token}}/{{\"A\".token}}"
                               => tpl.result = "{{\"N\".token}}/abc"
                        /\ tpl.input = "{{\"A\".}}{{\"\".t}}{{\"A\".token}}"
                               => tpl.result = "{{\"A\".}}{{\"\".t}}abc"
                        /\ tpl.input = "{{\\\"A\\\".}}/{{\"A\".token}}"
                               => tpl.result = "{{\\\"A\\\".}}/abc"

\* The names that are set in the process environment of the run.
IsSet(name) == \E i \in DOMAIN tpl.env : tpl.env[i].key = name

\* C18: with the variable {key: "token", value: "$MY_TOKEN"}, {{token}} is
\* resolved to the value MY_TOKEN has in the process environment whenever
\* MY_TOKEN is set, whatever the value, and to the text $MY_TOKEN when it is not
\* set; the resolution always ends with a result.
C18_EnvIndirection ==
    tpl.pc = "done" /\ tpl.input = "{{token}}"
        /\ tpl.variables[1] = Var("token", "$MY_TOKEN")
        => tpl.result = IF IsSet("MY_TOKEN")
                        THEN tpl.env[CHOOSE i \in DOMAIN tpl.env : tpl.env[i].key = "MY_TOKEN"].value
                        ELSE "$MY_TOKEN"

\* handleRequest of the page has come to its end in this goroutine's client:
\* proxy answered with an error result, or the update that follows a proxy
\* answer was answered.
Executed(p) ==
    /\ At(p, "idle")
    /\ \/ proc[p].op.kind = "proxy" /\ proc[p].resp = "ok" /\ proc[p].op.execError
       \/ proc[p].op.kind = "updateRequest" /\ proc[p].op.exec

\* C19: once a request has been executed through proxy, the stored request
\* holds the Executor's result as lastResponse, which is the body a later token
\* that names the request is resolved from. Stated for the first execution,
\* while no other request is served.
C19_ExecutionRecorded ==
    \A p \in Procs :
        Executed(p) /\ (\A q \in Procs \ {p} : proc[q].op.kind = "none")
            /\ (ops = 1 \/ proc[p].op.exec)
            => \E i \in DOMAIN file.doc.requests :
                   /\ file.doc.requests[i].id = proc[p].op.id
                   /\ file.doc.requests[i].lastResponse = proc[p].op.lr

\* A text that is the JSON text of some value.
IsJSONText(text) == \E v \in JSONValues : Marshal(v) = text

\* The handlers that have stored a request, and the body they stored.
Stored(p) ==
    /\ At(p, "idle") /\ proc[p].resp = "ok"
    /\ proc[p].op.kind \in {"saveRequest", "updateRequest"}
    /\ proc[p].op.body.t = "str"
StoredId(p) == IF proc[p].op.kind = "saveRequest" THEN proc[p].newId ELSE proc[p].op.id
BodyIn(d, id) == d.requests[IndexOfId(d.requests, id)].body

\* C20: a request saved or updated with a body text that is valid JSON is stored
\* with the decoded value as body, one saved with any other text with that
\* text as a string: in the Document the handler saved and, while no other
\* handler has run, in the file.
C20_BodyDecodedOnSave ==
    \A p \in Procs :
        Stored(p)
            => LET expected == IF IsJSONText(proc[p].op.body.v)
                               THEN JSONBody(proc[p].op.body.v)
                               ELSE proc[p].op.body
               IN  /\ BodyIn(proc[p].data, StoredId(p)) = expected
                   /\ ops = 1 => BodyIn(file.doc, StoredId(p)) = expected

\* One handler has stored {"a":1} as a value and another has stored hello as a
\* string, and the file holds both.
C20_BothStored ==
    /\ Stored("g1") /\ proc["g1"].op.body = StrBody("{\"a\":1}")
    /\ Stored("g2") /\ proc["g2"].op.body = StrBody("hello")
    /\ StoredId("g1") # StoredId("g2")
    /\ {StoredId("g1"), StoredId("g2")} \subseteq IdsOf(file.doc.requests)
    /\ BodyIn(file.doc, StoredId("g1")) = JSONBody("{\"a\":1}")
    /\ BodyIn(file.doc, StoredId("g2")) = StrBody("hello")

\* A Document as initEnv makes it from nothing: no requests, one environment
\* named Default, and that one current.
Fresh(d) ==
    /\ d.requests = <<>>
    /\ Len(d.environments) = 1
    /\ d.environments[1].name = "Default"
    /\ d.currentEnvironment = d.environments[1].id

\* C21: loadRequests on a file that is absent, zero-length or not parsable
\* returns no error and a fresh Document: no requests, exactly one environment,
\* named Default, whose id is currentEnvironment.
C21_FreshOnUnusableFile ==
    \A p \in Procs :
        At(p, "ret") /\ proc[p].seen.kind \in {"absent", "empty", "corrupt", "mistyped"}
            => ~proc[p].lerr /\ Fresh(proc[p].data)

\* The positions of a goroutine inside loadRequests proper, outside its
\* corrective saveSavedRequests.
InLoad(p) == proc[p].pc \in {"rlock", "read", "fix_runlock", "fix_rlock", "ret"}

NamesOf(d) == {d.requests[i].name : i \in DOMAIN d.requests}

\* The name a copy gets: the base if no request has it, otherwise the base with
\* the smallest suffix " (N)", N >= 2, that no request has.
FreeName(base, d) ==
    IF base \notin NamesOf(d) THEN base
    ELSE LET free == {n \in 2..(Len(d.requests) + 2) : Suffixed(base, n) \notin NamesOf(d)}
         IN  Suffixed(base, CHOOSE n \in free : \A m \in free : n <= m)

\* C23: duplicateRequest, on the Document it loaded, appends one request that
\* has the group and the body of the original, no lastResponse, an id no
\* request, environment or group has, and the name original + " (Copy)" or, if
\* that is taken, that base with the smallest free suffix " (N)", N >= 2; the
\* requests that were there stay as they are.
C23_DuplicateAppendsCopy ==
    [][\A p \in Procs :
          At(p, "ret") /\ proc[p].op.kind = "duplicateRequest" /\ ~proc[p].lerr
              /\ proc'[p].pc # "ret"
              /\ IndexOfId(proc[p].data.requests, proc[p].op.id) # 0
              => LET d == proc[p].data
                     original == d.requests[IndexOfId(d.requests, proc[p].op.id)]
                     after == proc'[p].data
                     copy == after.requests[Len(after.requests)]
                 IN  /\ proc'[p].pc = "lock" /\ proc'[p].from = "handler"
                     /\ Len(after.requests) = Len(d.requests) + 1
                     /\ SubSeq(after.requests, 1, Len(d.requests)) = d.requests
                     /\ after = [d EXCEPT !.requests = after.requests]
                     /\ copy.group = original.group /\ copy.body = original.body
                     /\ copy.lastResponse = NoResponse
                     /\ copy.id \notin AllIds(d)
                     /\ copy.name = FreeName(original.name \o " (Copy)", d)
                     /\ copy.name \notin NamesOf(d)]_vars

\* A request with the copies A (Copy) and A (Copy) (3) has been duplicated
\* twice: the copies are A (Copy) (2) and A (Copy) (4).
C23_SecondCopy ==
    \E p \in Procs :
        /\ At(p, "idle") /\ proc[p].op.kind = "duplicateRequest" /\ proc[p].resp = "ok"
        /\ proc[p].data.requests[Len(proc[p].data.requests)].name = "A (Copy) (4)"
        /\ "A (Copy) (2)" \in NamesOf(proc[p].data)
        /\ file = DocFile(proc[p].data)

\* The requests of a Document that have this name.
WithName(d, name) == {i \in DOMAIN d.requests : d.requests[i].name = name}

\* C24: saveRequest with the name of a stored request and updateRequest with
\* the name of another stored request are answered with a conflict and nothing
\* else is; in particular updateRequest with the request's own current name is
\* accepted. p holds the Document it loaded when it answers conflict, and the
\* Document it saved when it answers ok.
C24_NameConflicts ==
    \A p \in Procs :
        At(p, "idle") /\ proc[p].op.kind \in {"saveRequest", "updateRequest"}
            => LET d == proc[p].data
                   others == {i \in WithName(d, proc[p].op.name) :
                                  proc[p].op.kind = "updateRequest"
                                      => d.requests[i].id # proc[p].op.id}
               IN  /\ proc[p].resp = "conflict"
                          => /\ others # {}
                             /\ proc[p].op.kind = "updateRequest"
                                    => \A i \in WithName(d, proc[p].op.name) :
                                           d.requests[i].id # proc[p].op.id
                   /\ proc[p].resp = "ok"
                          => \A i \in WithName(d, proc[p].op.name) :
                                 d.requests[i].id = StoredId(p)

\* The ids of the requests of a Document, in the order of the list.
IdSeq(d) == [i \in DOMAIN d.requests |-> d.requests[i].id]

\* C25: the id of a request is given once, by saveRequest or duplicateRequest
\* when they append it, and no step changes it afterwards: loadRequests with its
\* migrations and its deduplication returns the requests of the file with their
\* ids, a handler keeps the ids of the requests it loaded and appends at most
\* one request, whose id is new, and a save writes the Document of its handler.
C25_IdNeverChanges ==
    [][\A p \in Procs :
          proc'[p] # proc[p]
              => /\ At(p, "read") /\ proc'[p].pc # "read" /\ file.kind \in {"doc", "mistyped"}
                        => IdSeq(proc'[p].data) = IdSeq(file.doc)
                 /\ At(p, "ret") /\ proc'[p].pc = "lock"
                        => LET d == proc[p].data
                               after == proc'[p].data
                               appends == proc[p].op.kind \in {"saveRequest", "duplicateRequest"}
                           IN  /\ Len(after.requests) = Len(d.requests) + (IF appends THEN 1 ELSE 0)
                               /\ \A i \in DOMAIN d.requests :
                                      after.requests[i].id = d.requests[i].id
                               /\ appends => after.requests[Len(after.requests)].id \notin AllIds(d)
                 /\ file' # file => file' = DocFile(proc[p].data)]_vars

\* Request 2 has been renamed by the deduplication and request 1 by
\* updateRequest, and both are in the file under their ids.
C25_RenamedTwiceSameIds ==
    /\ file.kind = "doc" /\ Len(file.doc.requests) = 2
    /\ file.doc.requests[1].id = 1 /\ file.doc.requests[1].name = "B"
    /\ file.doc.requests[2].id = 2 /\ file.doc.requests[2].name = "A (2)"

\* The parts of a well-formed reference: the text between the opening quote
\* and the first terminator, and the text after that terminator.
PartsOf(token) ==
    LET content == TrimSpace(Slice(token, 2, Len(token) - 2))
        quote == IF HasPrefix(content, "\\\"") THEN "\\\"" ELSE "\""
        rest == SliceFrom(content, Len(quote))
        end == Index(rest, quote \o ".")
    IN  [requestName |-> Slice(rest, 0, end),
         fieldPath |-> SliceFrom(rest, end + Len(quote) + 1)]

\* C26: for a reference in either quote style parseVariable returns the text
\* between the opening quote and the first terminator as requestName and the
\* text after the terminator as fieldPath, without the dot of the terminator
\* and without a quote.
C26_ParseVariableParts ==
    AfterToken /\ ~Malformed(LastMatch)
        => /\ tpl.last.ref.ok
           /\ tpl.last.ref.requestName = PartsOf(LastMatch).requestName
           /\ tpl.last.ref.fieldPath = PartsOf(LastMatch).fieldPath
           /\ ~HasPrefix(tpl.last.ref.fieldPath, ".")
           /\ ~Contains(tpl.last.ref.requestName, "\"")

\* The variables with a key applied to a text one after the other, the first n
\* of the list: the last of them is applied to what the ones before it left.
RECURSIVE InListOrder(_, _, _)
InListOrder(text, n, env) ==
    IF n = 0 THEN text
    ELSE LET before == InListOrder(text, n - 1, env)
             v == tpl.variables[n]
         IN  IF v.key = "" THEN before
             ELSE ReplaceAll(before, "{{" \o v.key \o "}}", resolveEnvVar(env, v.value))

\* The first n response tokens of the input resolved, one after the other.
RECURSIVE TokensResolved(_, _)
TokensResolved(text, n) ==
    IF n = 0 THEN text
    ELSE substitute(TokensResolved(text, n - 1), tpl.matches[n],
                    loadRequestsBody(file, nextId).data)

\* C27: processTemplate resolves the response tokens first and then applies the
\* variables one at a time, in list order, to the running result. With the
\* variables a = {{b}}, b = B, c = {{a}}, d = {{"A".t}} and A's response
\* {"t":"{{b}}"}: {{a}} and {{"A".t}} become B (the token of the later variable
\* b, put in by an earlier variable or by a response, is substituted), {{c}}
\* becomes {{a}} and {{d}} becomes {{"A".t}} (a token put in by a later
\* variable for an earlier one, or for a response, stays).
C27_TokensThenVariablesInOrder ==
    /\ tpl.pc = "tokens" => tpl.result = TokensResolved(tpl.input, tpl.i - 1)
    /\ tpl.pc = "done"
           => /\ tpl.i = Len(tpl.matches) + 1
              /\ tpl.result = InListOrder(TokensResolved(tpl.input, Len(tpl.matches)),
                                          Len(tpl.variables), tpl.env)
    /\ tpl.pc = "done" /\ file = DocFile(DocOrder)
           => /\ tpl.input = "{{a}}" => tpl.result = "B"
              /\ tpl.input = "{{\"A\".t}}" => tpl.result = "B" /\ tpl.prev = tpl.input
              /\ tpl.input = "{{c}}" => tpl.result = "{{a}}"
              /\ tpl.input = "{{d}}" => tpl.result = "{{\"A\".t}}"
              /\ tpl.input = "{{c}}/{{a}}/{{\"A\".t}}" => tpl.result = "{{a}}/B/B"

\* A text with the token of a later variable, of an earlier variable and of a
\* response has been resolved.
C27_OrderResolved ==
    /\ tpl.pc = "done" /\ file = DocFile(DocOrder)
    /\ tpl.input = "{{c}}/{{a}}/{{\"A\".t}}" /\ tpl.result = "{{a}}/B/B"

\* The value of the first variable of the run with this key, resolved.
HasVariable(key) == \E i \in DOMAIN tpl.variables : tpl.variables[i].key = key
ValueOf(key) ==
    resolveEnvVar(tpl.env,
                  tpl.variables[CHOOSE i \in DOMAIN tpl.variables :
                                    /\ tpl.variables[i].key = key
                                    /\ \A j \in 1..(i - 1) : tpl.variables[j].key # key].value)

\* A text read from left to right: where "{{", a non-empty key of a variable
\* and "}}" follow each other, the value stands for the three; every other
\* character stays.
RECURSIVE Expand(_)
Expand(text) ==
    LET i == Index(text, "{{")
        rest == SliceFrom(text, i + 2)
        j == Index(rest, "}}")
        key == Slice(rest, 0, j)
    IN  IF i < 0 \/ j < 0 THEN text
        ELSE IF key # "" /\ HasVariable(key)
        THEN Slice(text, 0, i) \o ValueOf(key) \o Expand(SliceFrom(rest, j + 2))
        ELSE Slice(text, 0, i + 1) \o Expand(SliceFrom(text, i + 1))

\* C28: the variables replace every occurrence of "{{" + key + "}}" and nothing
\* else, here for variables whose values hold no token themselves: {{ key }}
\* with blanks stays, a variable with an empty key replaces nothing, not even
\* {{}}, and {{name}} without a variable of that name stays.
C28_ExactTokensOnly ==
    tpl.pc = "done" /\ tpl.matches = <<>>
        /\ (\A i \in DOMAIN tpl.variables : ~Contains(tpl.variables[i].value, "{{"))
        => /\ tpl.result = Expand(tpl.input)
           /\ tpl.input = "{{ token }}{{nokey}}" => tpl.result = tpl.input
           /\ tpl.input = "{{}}" /\ HasVariable("") => tpl.result = "{{}}"
           /\ tpl.input = "{{host}}{{host}}" /\ HasVariable("host")
                  => tpl.result = ValueOf("host") \o ValueOf("host")

\* With a variable host, a variable without key and no variable " host ":
\* {{{token}}/{{}}/{{ host }} has become {s3cr3t/{{}}/{{ host }}.
C28_OnlyTokenReplaced ==
    /\ tpl.pc = "done" /\ file = DocFile(DocChain)
    /\ tpl.input = "{{{token}}/{{}}/{{ host }}"
    /\ tpl.result = "{s3cr3t/{{}}/{{ host }}"

\* C29: isObject is set exactly for a leaf that is an object or an array, and
\* for a whole body that is not a string under the path "response"; a string
\* leaf is passed on as it is, null gives the empty string, a number or a
\* boolean its JSON text, none of them flagged; what is not flagged replaces
\* the bare token, so that "{{\"A\".n}}" with n = 42 becomes "42", quotes kept.
C29_FlagOnlyForStructures ==
    /\ AfterToken /\ ~tpl.last.skipped
           => LET fieldPath == tpl.last.ref.fieldPath
                  whole == fieldPath = "response"
              IN  /\ tpl.last.field.isObject
                         <=> \/ whole /\ LastBody.k \notin {"null", "string"}
                             \/ ~whole /\ LastLeaf.k \in {"object", "array"}
                  /\ ~whole /\ LastLeaf.k = "string"
                         => tpl.last.field = FieldResult(LastLeaf.s, FALSE)
                  /\ ~whole /\ LastLeaf.k = "null" => tpl.last.field = FieldResult("", FALSE)
                  /\ ~whole /\ LastLeaf.k \in {"number", "bool"}
                         => tpl.last.field = FieldResult(Marshal(LastLeaf), FALSE)
                  /\ ~tpl.last.field.isObject
                         => tpl.result = ReplaceAll(tpl.prev, LastMatch, tpl.last.field.value)
    /\ tpl.pc = "done" /\ file = DocFile(DocSplice)
           /\ tpl.input = "\"{{\\\"A\\\".n}}\"" => tpl.result = "\"42\""
    /\ tpl.pc = "done" /\ tpl.input = "[{{\"R\".nul}}]" => tpl.result = "[]"

\* The quoted token of the number 42 has been replaced between its quotes.
C29_NumberKeepsQuotes ==
    /\ tpl.pc = "done" /\ file = DocFile(DocSplice)
    /\ tpl.input = "\"{{\\\"A\\\".n}}\"" /\ tpl.result = "\"42\""
    /\ tpl.last.field = FieldResult("42", FALSE)
    /\ LastLeaf = JNum("42")

\* A body that is a JSON object or array, and the value a JSON text stands for.
Structured(body) == body.t = "json" /\ Unmarshal(body.v).v.k \in {"object", "array"}
BodyOf(value) == JSONBody(Marshal(value))

\* C30: a body that is an object or an array comes back from processTemplates
\* as the same value when its text holds no token; whatever was substituted,
\* the body is the decoded object or array when the substituted text is valid
\* JSON, and the substituted text as a string when it is not.
C30_StructuredBodyRoundTrips ==
    tpl.pc = "parsed" /\ Structured(tpl.body)
        => /\ tpl.input = Marshal(Unmarshal(tpl.body.v).v)
           /\ FindAllTokens(tpl.input) = <<>> => tpl.out = tpl.body
           /\ Unmarshal(tpl.result).ok
                  => /\ Structured(tpl.out)
                     /\ Unmarshal(tpl.out.v).v = Unmarshal(tpl.result).v
           /\ ~Unmarshal(tpl.result).ok => tpl.out = StrBody(tpl.result)
           /\ file = DocFile(DocSplice)
                  => /\ tpl.body = BodyOf(JObj(<<Member("x", JStr("{{\"A\".obj}}"))>>))
                         => tpl.out = BodyOf(JObj(<<Member("x", JObj(<<Member("k", JNum("1"))>>))>>))
                     /\ tpl.body = BodyOf(JObj(<<Member("x", JStr("a {{\"A\".obj}}"))>>))
                         => tpl.out = StrBody("{\"x\":\"a {\"k\":1}\"}")
                     /\ tpl.body = BodyOf(JObj(<<Member("n", JStr("{{\"A\".n}}"))>>))
                         => tpl.out = BodyOf(JObj(<<Member("n", JStr("42"))>>))
                     /\ tpl.body = BodyOf(JArr(<<Element(JStr("{{host}}")), Element(JNum("1"))>>))
                         => tpl.out = BodyOf(JArr(<<Element(JStr("example.com")),
                                                    Element(JNum("1"))>>))
                     /\ tpl.body = BodyOf(JObj(<<Member("example.com", JNum("2")),
                                                 Member("{{host}}", JNum("1"))>>))
                         => tpl.out = BodyOf(JObj(<<Member("example.com", JNum("1"))>>))

\* The object {"x": "{{\"A\".obj}}"} has come back as {"x": {"k": 1}}.
C30_ObjectSplicedAndDecoded ==
    /\ tpl.pc = "parsed" /\ file = DocFile(DocSplice)
    /\ tpl.body = BodyOf(JObj(<<Member("x", JStr("{{\"A\".obj}}"))>>))
    /\ tpl.result = "{\"x\":{\"k\":1}}"
    /\ tpl.out = JSONBody("{\"x\":{\"k\":1}}")

\* C31: parseVariable returns an error for every token without the delimiters,
\* without an opening quote, without terminator, or with nothing before or
\* after the terminator, and a reference, both parts non-empty, for every
\* other token.
C31_RejectsMalformed ==
    AfterToken
        => /\ tpl.last.ref.ok <=> ~Malformed(LastMatch)
           /\ tpl.last.ref.ok => tpl.last.ref.requestName # "" /\ tpl.last.ref.fieldPath # ""

\* The steps a resolution has left at most: one round for each token found in
\* the original input that has not had its round, and the pass over the variables.
StepsLeft ==
    CASE tpl.pc = "tokens" -> Len(tpl.matches) + 2 - tpl.i
      [] tpl.pc = "done" -> 0
      [] OTHER -> -1

\* C32: a resolution ends after at most one round (one lookup, one replacement)
\* for each token found in the original input and one pass over the variables:
\* every step of it takes one from the steps left, the last step ends it, and
\* no step executes a request or writes the store; this also where the last
\* responses of A and R hold a token naming each other.
C32_ResolutionTerminates ==
    /\ [](tpl.pc \in {"tokens", "done"}
              => /\ tpl.matches = responseMatchesOf(tpl.input)
                 /\ StepsLeft >= 0
                 /\ StepsLeft = 0 <=> tpl.pc = "done"
                 /\ tpl.pc = "tokens" => (tpl.i <= Len(tpl.matches) <=> StepsLeft > 1))
    /\ [][tpl.pc = "tokens"
              => /\ StepsLeft' = StepsLeft - 1
                 /\ tpl'.input = tpl.input
                 /\ UNCHANGED <<file, tmp, ops, proc>>]_vars
    /\ [](tpl.pc = "done" /\ file = DocFile(DocCycle)
              => /\ tpl.input = "{{\"A\".t}}" => tpl.result = "{{\"R\".t}}"
                 /\ tpl.input = "{{\"A\".t}}{{\"R\".t}}" => tpl.result = "{{\"A\".t}}{{\"A\".t}}")

\* The token of A has been replaced by the token of R that A's last response
\* holds, and the resolution has ended with that token in its result.
C32_CycleEnded ==
    /\ tpl.pc = "done" /\ file = DocFile(DocCycle)
    /\ tpl.input = "{{\"A\".t}}" /\ tpl.result = "{{\"R\".t}}"
    /\ tpl.i = 2

\* The handlers that address an environment by the id in the URL.
ByEnvId == {"updateEnvironment", "activateEnvironment", "copyEnvironment"}

\* C33: an environment id that a Load has returned stays valid while no
\* environment is deleted: an update, activate or copy addressed to an id of
\* a Document seen before is never answered "Environment not found".
C33_EnvIdStaysValid ==
    \A p \in Procs :
        At(p, "idle") /\ proc[p].op.kind \in ByEnvId => proc[p].resp # "notfound"

\* The same on a file that holds environments.
C33_StoredEnvIdStaysValid ==
    Len(file.doc.environments) > 0 => C33_EnvIdStaysValid

\* The goroutine holds the Document that loadRequests made of the Document it
\* read, dedupRequestNames done.
Deduped(p) ==
    /\ proc[p].pc \in {"ret", "fix_runlock", "lock", "direct", "unlock", "fix_rlock"}
    /\ proc[p].op.kind = "requests"
    /\ proc[p].seen.kind = "doc"

Loaded(p) == proc[p].seen.doc.requests
Returned(p) == proc[p].data.requests

\* The number, the order and the ids of the requests are those of the file.
SameRequests(p) ==
    /\ Len(Returned(p)) = Len(Loaded(p))
    /\ \A i \in DOMAIN Loaded(p) : Returned(p)[i].id = Loaded(p)[i].id

\* C34: dedupRequestNames renames only a request whose name an earlier request
\* of the loaded Document has; a request whose name occurs once in the loaded
\* Document keeps it, and the number, order and ids of requests are unchanged.
C34_DedupRenamesOnlyDuplicates ==
    \A p \in Procs :
        Deduped(p)
            => /\ SameRequests(p)
               /\ \A i \in DOMAIN Loaded(p) :
                      /\ Returned(p)[i].name # Loaded(p)[i].name
                             => \E j \in 1..(i - 1) : Loaded(p)[j].name = Loaded(p)[i].name
                      /\ (\A j \in DOMAIN Loaded(p) :
                              j # i => Loaded(p)[j].name # Loaded(p)[i].name)
                             => Returned(p)[i].name = Loaded(p)[i].name

\* What dedupRequestNames does: a request is renamed exactly when its name is
\* the name that an earlier request has in the returned Document.
C34_RenamedIffTaken ==
    \A p \in Procs :
        Deduped(p)
            => /\ SameRequests(p)
               /\ \A i \in DOMAIN Loaded(p) :
                      Returned(p)[i].name # Loaded(p)[i].name
                          <=> \E j \in 1..(i - 1) : Returned(p)[j].name = Loaded(p)[i].name

\* C35: whatever the interleaving of creates, renames and duplicates, every
\* Document that saveSavedRequests writes to the file has pairwise distinct
\* request names: the handler hands over the snapshot it checked, and that
\* snapshot is what the file holds when the write is done.
C35_WrittenNamesDistinct ==
    \A p \in Procs :
        /\ Writing(p) => NoDupNames(proc[p].data)
        /\ At(p, "unlock") => file = DocFile(proc[p].data) /\ NoDupNames(file.doc)

\* The same for the goroutines whose loadRequests parsed the file it read.
C35_WrittenNamesDistinctParsed ==
    \A p \in Procs :
        proc[p].seen.kind # "mistyped"
            => /\ Writing(p) => NoDupNames(proc[p].data)
               /\ At(p, "unlock") => file = DocFile(proc[p].data) /\ NoDupNames(file.doc)

\* The goroutine is inside loadRequests, its corrective save included.
InLoadRequests(p) ==
    \/ InLoad(p)
    \/ proc[p].from = "load" /\ (At(p, "lock") \/ Writing(p))

\* The goroutine is inside saveSavedRequests.
InSaveSavedRequests(p) == At(p, "lock") \/ Writing(p)

\* The positions at which the goroutine holds the read lock, and those outside
\* of it: before RLock, after the return of loadRequests, and around the
\* corrective save.
HoldsRLock(p) == proc[p].pc \in {"read", "fix_runlock", "ret"}

\* C36: every loadRequests and every saveSavedRequests returns, however many
\* loads, saves and loads with a corrective save run beside each other, and a
\* goroutine that has returned from either holds neither the read lock nor the
\* write lock, whichever return path it took.
C36_LoadAndSaveReturn ==
    /\ [](\A p \in Procs :
              /\ p \in readers <=> HoldsRLock(p)
              /\ writer = p <=> Writing(p))
    /\ \A p \in Procs :
           /\ InLoadRequests(p) ~> ~InLoadRequests(p)
           /\ InSaveSavedRequests(p) ~> ~InSaveSavedRequests(p)

\* A load whose corrective save failed after all retries and a handler whose
\* save failed have both returned, and no lock is held.
C36_AllReturned ==
    \E p, q \in Procs :
        /\ p # q
        /\ At(p, "idle") /\ proc[p].op.kind = "requests" /\ proc[p].resp = "ok"
        /\ proc[p].fixErr = "retries"
        /\ At(q, "idle") /\ proc[q].op.kind = "handleSaveWordWrap" /\ proc[q].resp = "error"
        /\ readers = {} /\ writer = NoProc

\* Every request has a group, and it is the name of a group of the Document.
GroupsExist(d) ==
    \A i \in DOMAIN d.requests :
        /\ d.requests[i].group # ""
        /\ \E j \in DOMAIN d.groups : d.groups[j].name = d.requests[i].group

\* C37: in the Document that loadRequests returns after parsing the file,
\* every request has a non-empty group that is the name of a group in the
\* Document's groups list, whatever store operations came before.
C37_RequestGroupsExist ==
    \A p \in Procs :
        At(p, "ret") /\ ~proc[p].lerr /\ proc[p].seen.kind = "doc"
            => GroupsExist(proc[p].data)

\* The part that holds: no returned request is without a group.
C37_RequestGroupsNonEmpty ==
    \A p \in Procs :
        At(p, "ret") /\ ~proc[p].lerr /\ proc[p].seen.kind = "doc"
            => \A i \in DOMAIN proc[p].data.requests : proc[p].data.requests[i].group # ""

\* The two calls of processTemplates have both left the loop over the headers.
HeadersResolved == tpl.pc = "done" /\ tpl.field = "headers"

\* The key that processTemplates makes of a header key.
KeyOf(key) ==
    processTemplate(key, tpl.variables, tpl.env, loadRequestsBody(file, nextId).data)

\* C38: processTemplates is deterministic: two calls with the same request,
\* the same variables and the same store yield the same header map, also when
\* two header keys resolve to the same key.
C38_SameHeadersEachCall ==
    HeadersResolved => tpl.runs[1].processedHeaders = tpl.runs[2].processedHeaders

\* The same for requests no two of whose header keys resolve to one key.
C38_SameHeadersWithoutCollision ==
    HeadersResolved
        /\ (\A j, k \in DOMAIN tpl.headers : j # k => KeyOf(j) # KeyOf(k))
        => /\ tpl.runs[1].processedHeaders = tpl.runs[2].processedHeaders
           /\ \A k \in DOMAIN tpl.headers :
                  tpl.runs[1].processedHeaders[KeyOf(k)]
                      = processTemplate(tpl.headers[k], tpl.variables, tpl.env,
                                        loadRequestsBody(file, nextId).data)

\* The two texts are the same, or JSON texts of the same value.
SameContent(a, b) ==
    \/ a = b
    \/ Unmarshal(a).ok /\ Unmarshal(b).ok /\ Unmarshal(a).v = Unmarshal(b).v

\* The body of the request is a string without a token, and makeHTTPRequest
\* has made the text it sends.
SentPlain ==
    /\ tpl.pc = "sent"
    /\ tpl.body.t = "str"
    /\ FindAllTokens(tpl.body.v) = <<>>

\* C39: a string body without a token reaches the target with the content it
\* had: the text sent is that text, or a JSON text of the same value, also when
\* the text is a JSON string literal, quotes included.
C39_PlainBodySentUnchanged ==
    SentPlain => SameContent(tpl.sent, tpl.body.v)

\* The same for the texts that are not a JSON string literal and not null.
C39_PlainBodySentUnchangedUnlessScalar ==
    SentPlain /\ ~(Unmarshal(tpl.body.v).ok /\ Unmarshal(tpl.body.v).v.k \in {"string", "null"})
        => SameContent(tpl.sent, tpl.body.v)

\* updateRequest goes from the Document it loaded to its saveSavedRequests.
Updates(p) ==
    At(p, "ret") /\ proc[p].op.kind = "updateRequest" /\ proc'[p].pc = "lock"

\* C40: updateRequest replaces the recorded lastResponse of the request it
\* updates exactly when the update carries one, and leaves it as it is
\* otherwise; every other request, and everything of the Document that is not
\* a request, is saved as it was loaded.
C40_UpdateFrame ==
    [][\A p \in Procs :
           Updates(p)
               => LET old == proc[p].data
                      new == proc'[p].data
                      i == IndexOfId(old.requests, proc[p].op.id)
                  IN  /\ i # 0
                      /\ new.requests[i].lastResponse =
                             IF proc[p].op.lr.present THEN proc[p].op.lr
                             ELSE old.requests[i].lastResponse
                      /\ new.requests[i].id = old.requests[i].id
                      /\ Len(new.requests) = Len(old.requests)
                      /\ \A j \in DOMAIN old.requests :
                             j # i => new.requests[j] = old.requests[j]
                      /\ [new EXCEPT !.requests = old.requests] = old]_vars

\* A request with a recorded lastResponse has been renamed by an update that
\* carried none, and the file holds the new name beside the old lastResponse.
C40_RenamedKeepsResponse ==
    \E p \in Procs :
        /\ At(p, "idle") /\ proc[p].op.kind = "updateRequest" /\ proc[p].resp = "ok"
        /\ ~proc[p].op.lr.present
        /\ file.kind = "doc"
        /\ \E i \in DOMAIN file.doc.requests :
               /\ file.doc.requests[i].id = proc[p].op.id
               /\ file.doc.requests[i].name = "B"
               /\ file.doc.requests[i].id = 1
               /\ file.doc.requests[i].lastResponse = Response(JSONBody("{\"t\":1}"))

====
